---------------------------- MODULE Spec2Model ----------------------------
(***************************************************************************)
(* A model of the i386 emulator: the machine of src/src/emulator.rs, the   *)
(* ModR/M accessors of src/src/modrm.rs, the port and BIOS surface of      *)
(* src/src/io.rs and src/src/bios.rs, and the run loop of src/src/main.rs. *)
(*                                                                         *)
(* A u32 is the record [hi, lo] of its two 16-bit halves, so that every    *)
(* 32-bit value is represented exactly and the arithmetic below wraps (or  *)
(* overflows) at 2^32 as the Rust arithmetic does.  A u8 is a number in    *)
(* 0..255.  Memory is the vector of MEMORY_SIZE bytes, held as a function  *)
(* on the addresses written so far; every other byte is the 0 the          *)
(* constructor put there.                                                  *)
(***************************************************************************)
EXTENDS Integers, Sequences, FiniteSets, TLC

VARIABLES
    registers,        \* Emulator.registers: [u32; 8]
    eflags,           \* Emulator.eflags: u32
    memory,           \* Emulator.memory: Vec<u8>
    eip,              \* Emulator.eip: u32
    fault,            \* "none", or how the process aborted: "panic", "exit"
    halt,             \* position of main: "run", or why its loop was left
    dump,             \* what dump_registers printed: <<>> or <<registers, eip>>
    stdout,           \* the bytes io_out8 wrote to standard output
    stdin,            \* the bytes still to be read from standard input
    diag,             \* the diagnostics printed, in order
    overflow_checks,  \* the build: TRUE when integer overflow panics (debug)
    instructions,     \* Emulator.instructions: HashMap<u8, Instruction>
    image,            \* the bytes of the file named on the command line
    hist,             \* the emulator before each of the last steps, latest first
    call              \* the direct calls made on the emulator, in order

vars == <<registers, eflags, memory, eip, fault, halt, dump, stdout, stdin,
          diag, overflow_checks, instructions, image, hist, call>>

(***************************************************************************)
(* 32-bit and 64-bit words                                                 *)
(***************************************************************************)
Half == 2 ^ 16

U8 == 0 .. 255

U32(hi, lo) == [hi |-> hi, lo |-> lo]

\* The u32 of a number below 2^31.
W(n) == [hi |-> n \div Half, lo |-> n % Half]

Zero32 == W(0)

\* `w as usize`, for the words below 2^31; the others only ever compare
\* greater than a memory size (TooBig).
AsUsize(w) == w.hi * Half + w.lo

TooBig(w) == w.hi >= 2 ^ 15

\* a + b with the carry out of bit 31.
AddCarry(a, b) ==
    LET lo == a.lo + b.lo
        hi == a.hi + b.hi + (lo \div Half)
    IN  [val |-> U32(hi % Half, lo % Half), carry |-> hi \div Half]

\* a - b - bin with the borrow out of bit 31.
SubBorrow(a, b, bin) ==
    LET lo == a.lo - b.lo - bin
        bl == IF lo < 0 THEN 1 ELSE 0
        hi == a.hi - b.hi - bl
        bh == IF hi < 0 THEN 1 ELSE 0
    IN  [val |-> U32((hi + Half) % Half, (lo + Half) % Half), borrow |-> bh]

wrapping_add(a, b) == AddCarry(a, b).val

wrapping_sub(a, b) == SubBorrow(a, b, 0).val

\* `x as u64`
AsU64(w) == [hi |-> Zero32, lo |-> w]

\* u64::wrapping_sub
wrapping_sub64(a, b) ==
    LET l == SubBorrow(a.lo, b.lo, 0)
        h == SubBorrow(a.hi, b.hi, l.borrow)
    IN  [hi |-> h.val, lo |-> l.val]

\* `w >> n` on a u32, 0 <= n < 32.
Shr32(w, n) ==
    IF n >= 16
    THEN U32(0, w.hi \div (2 ^ (n - 16)))
    ELSE U32(w.hi \div (2 ^ n),
             (w.lo \div (2 ^ n)) + (w.hi % (2 ^ n)) * (2 ^ (16 - n)))

\* `b << n` for a byte b and n in {0, 8, 16, 24}.
ShlByte(b, n) ==
    CASE n = 0  -> U32(0, b)
      [] n = 8  -> U32(0, b * 256)
      [] n = 16 -> U32(b, 0)
      [] n = 24 -> U32(b * 256, 0)

\* `a | b` where the set bits of a and b are disjoint, as in the
\* little-endian assembly loops and in set_register8.
OrDisjoint(a, b) == U32(a.hi + b.hi, a.lo + b.lo)

\* `w as u8`
LowByte(w) == w.lo % 256

\* `i8 as u32` and `i8 as i32 as u32`: sign extension of the byte b.
SignExtend8(b) == IF b >= 128 THEN U32(Half - 1, (Half - 256) + b) ELSE U32(0, b)

\* The signed value of a byte and of a word (for displacements).
Signed8(b) == IF b >= 128 THEN b - 256 ELSE b


(***************************************************************************)
(* The machine.  The operators below take the emulator as a record m and   *)
(* return the emulator after the call; a read returns [ok, val], ok being  *)
(* FALSE where the Rust code panics (an index out of bounds).  Once a call *)
(* has aborted the process (fault # "none") nothing more happens.          *)
(***************************************************************************)
MEMORY_SIZE == 1024 * 1024

CARRY_FLAG == 2 ^ 0

ZERO_FLAG == 2 ^ 1

SIGN_FLAG == 2 ^ 2

OVERFLOW_FLAG == 2 ^ 3

Eax == 0

Ecx == 1

Edx == 2

Ebx == 3

Esp == 4

Ebp == 5

Al == 0

Ah == 4

Bl == 3

\* The emulator the variables hold.
Self ==
    [registers |-> registers, eflags |-> eflags, memory |-> memory,
     eip |-> eip, fault |-> fault, stdout |-> stdout, stdin |-> stdin,
     diag |-> diag, overflow_checks |-> overflow_checks]

Running(m) == m.fault = "none"

\* panic!, and every failed index, expect and checked arithmetic operation.
Panic(m) == IF Running(m) THEN [m EXCEPT !.fault = "panic"] ELSE m

\* std::process::exit(1)
Exit(m) == IF Running(m) THEN [m EXCEPT !.fault = "exit"] ELSE m

\* println! and eprintln! of a diagnostic.
Println(m, text) ==
    IF Running(m) THEN [m EXCEPT !.diag = Append(@, text)] ELSE m

\* The byte of the memory vector at index a < MEMORY_SIZE.
MemAt(mem, a) == IF a \in DOMAIN mem THEN mem[a] ELSE 0

\* `self.eip += n`: a checked addition in a debug build, wrapping otherwise.
add_eip(m, n) ==
    LET s == AddCarry(m.eip, W(n))
    IN  IF ~Running(m) THEN m
        ELSE IF s.carry = 1 /\ m.overflow_checks THEN Panic(m)
        ELSE [m EXCEPT !.eip = s.val]

get_code8(m, index) ==
    LET ok == ~TooBig(m.eip) /\ AsUsize(m.eip) + index < MEMORY_SIZE
    IN  [ok |-> ok,
         val |-> IF ok THEN MemAt(m.memory, AsUsize(m.eip) + index) ELSE 0]

\* The byte as i8: a number in -128..127.
get_sign_code8(m, index) ==
    LET c == get_code8(m, index)
    IN  [ok |-> c.ok, val |-> Signed8(c.val)]

get_code32(m, index) ==
    LET b(i) == get_code8(m, index + i)
        part(i) == ShlByte(b(i).val, i * 8)
    IN  [ok |-> \A i \in 0 .. 3 : b(i).ok,
         val |-> OrDisjoint(OrDisjoint(part(0), part(1)),
                            OrDisjoint(part(2), part(3)))]

\* The same bits as i32.
get_sign_code32(m, index) == get_code32(m, index)

\* `d as u32` for an i8 d: sign extension to 32 bits.
I8AsU32(d) == SignExtend8((d + 256) % 256)

\* Register8::from_usize: Some(reg) as <<reg>>, None as <<>>.
from_usize(value) == IF value \in 0 .. 7 THEN <<value>> ELSE <<>>

get_register32(m, index) == m.registers[index]

get_register8(m, reg) ==
    IF reg < 4
    THEN LowByte(m.registers[reg])
    ELSE LowByte(Shr32(m.registers[reg - 4], 8))

set_register32(m, index, value) ==
    IF Running(m) THEN [m EXCEPT !.registers[index] = value] ELSE m

\* An 8-bit write that would store the byte as the whole register.
SetRegister8Whole(m, reg, value) ==
    IF ~Running(m) THEN m
    ELSE [m EXCEPT !.registers[reg % 4] = ShlByte(value, 8 * (reg \div 4))]

set_register8(m, reg, value) ==
    IF ~Running(m) THEN m
    ELSE IF reg < 4
    THEN LET index == reg
             r == U32(m.registers[index].hi,
                      m.registers[index].lo - (m.registers[index].lo % 256))
         IN  [m EXCEPT !.registers[index] = OrDisjoint(r, U32(0, value))]
    ELSE LET index == reg - 4
             old == m.registers[index]
             r == U32(old.hi, old.lo - ((old.lo \div 256) % 256) * 256)
         IN  [m EXCEPT !.registers[index] = OrDisjoint(r, ShlByte(value, 8))]

set_memory8(m, address, value) ==
    IF ~Running(m) THEN m
    ELSE IF TooBig(address) \/ AsUsize(address) >= MEMORY_SIZE THEN Panic(m)
    ELSE [m EXCEPT !.memory = (AsUsize(address) :> value) @@ @]

\* The u32 addition `a + b`: [ok, val], ok being FALSE where it panics
\* (on overflow, in a build with overflow checks); it wraps otherwise.
CheckedAdd(m, a, b) ==
    LET s == AddCarry(a, b)
    IN  [ok |-> ~(s.carry = 1 /\ m.overflow_checks), val |-> s.val]

\* `address + i` of the 32-bit memory accessors.
AddrPlus(m, address, i) == CheckedAdd(m, address, W(i))

\* A round that would store the bytes most significant first.
SetMemory32ByteBigEndian(m, address, value, i) ==
    LET a == AddrPlus(m, address, i)
    IN  IF ~Running(m) THEN m
        ELSE IF ~a.ok THEN Panic(m)
        ELSE set_memory8(m, a.val, LowByte(Shr32(value, (3 - i) * 8)))

\* One round of the loop of set_memory32.
SetMemory32Byte(m, address, value, i) ==
    LET a == AddrPlus(m, address, i)
    IN  IF ~Running(m) THEN m
        ELSE IF ~a.ok THEN Panic(m)
        ELSE set_memory8(m, a.val, LowByte(Shr32(value, i * 8)))

set_memory32(m, address, value) ==
    SetMemory32Byte(
        SetMemory32Byte(
            SetMemory32Byte(
                SetMemory32Byte(m, address, value, 0),
                address, value, 1),
            address, value, 2),
        address, value, 3)

get_memory8(m, address) ==
    LET ok == ~TooBig(address) /\ AsUsize(address) < MEMORY_SIZE
    IN  [ok |-> ok, val |-> IF ok THEN MemAt(m.memory, AsUsize(address)) ELSE 0]

get_memory32(m, address) ==
    LET a(i) == AddrPlus(m, address, i)
        b(i) == get_memory8(m, a(i).val)
        part(i) == ShlByte(b(i).val, 8 * i)
    IN  [ok |-> \A i \in 0 .. 3 : a(i).ok /\ b(i).ok,
         val |-> OrDisjoint(OrDisjoint(part(0), part(1)),
                            OrDisjoint(part(2), part(3)))]

\* A push that would store at ESP and leave ESP where it is.
Push32NoDecrement(m, value) == set_memory32(m, get_register32(m, 4), value)

push32(m, value) ==
    LET s == SubBorrow(get_register32(m, 4), W(4), 0)
        address == s.val
    IN  IF ~Running(m) THEN m
        ELSE IF s.borrow = 1 /\ m.overflow_checks THEN Panic(m)
        ELSE set_memory32(set_register32(m, 4, address), address, value)

\* pop32 returns [emu, val]: the emulator after the call and the value.
pop32(m) ==
    LET address == get_register32(m, 4)
        ret == get_memory32(m, address)
        s == AddCarry(address, W(4))
    IN  IF ~Running(m) THEN [emu |-> m, val |-> Zero32]
        ELSE IF ~ret.ok \/ (s.carry = 1 /\ m.overflow_checks)
        THEN [emu |-> Panic(m), val |-> Zero32]
        ELSE [emu |-> set_register32(m, 4, s.val), val |-> ret.val]

\* `self.eflags |= flag` and `self.eflags &= !flag`
SetFlagBit(m, flag, on) ==
    LET isSet == (m.eflags \div flag) % 2 = 1
    IN  IF ~Running(m) THEN m
        ELSE IF on
        THEN [m EXCEPT !.eflags = IF isSet THEN @ ELSE @ + flag]
        ELSE [m EXCEPT !.eflags = IF isSet THEN @ - flag ELSE @]

set_carry(m, is_carry) == SetFlagBit(m, CARRY_FLAG, is_carry)

set_zero(m, is_zero) == SetFlagBit(m, ZERO_FLAG, is_zero)

set_sign(m, is_sign) == SetFlagBit(m, SIGN_FLAG, is_sign)

set_overflow(m, is_overflow) == SetFlagBit(m, OVERFLOW_FLAG, is_overflow)

is_carry(m) == (m.eflags \div CARRY_FLAG) % 2 # 0

is_zero(m) == (m.eflags \div ZERO_FLAG) % 2 # 0

is_sign(m) == (m.eflags \div SIGN_FLAG) % 2 # 0

is_overflow(m) == (m.eflags \div OVERFLOW_FLAG) % 2 # 0

\* Flags with the overflow rule of an addition (operands of equal sign).
UpdateEflagsAddOverflow(m, v1, v2, result) ==
    LET sign1 == Shr32(v1, 31)
        sign2 == Shr32(v2, 31)
        signr == Shr32(result.lo, 31).lo % 2
    IN  set_overflow(
            set_sign(
                set_zero(
                    set_carry(m, result.hi # Zero32),
                    result.lo = Zero32),
                signr # 0),
            (sign1 = sign2) /\ (sign1.lo # signr))

update_eflags_sub(m, v1, v2, result) ==
    LET sign1 == Shr32(v1, 31)
        sign2 == Shr32(v2, 31)
        signr == Shr32(result.lo, 31).lo % 2
    IN  set_overflow(
            set_sign(
                set_zero(
                    set_carry(m, result.hi # Zero32),
                    result.lo = Zero32),
                signr # 0),
            (sign1 # sign2) /\ (sign1.lo # signr))


(***************************************************************************)
(* ModR/M: parse_modrm (emulator.rs) and the accessors of modrm.rs.  An    *)
(* Option is a sequence: None is <<>>, Some(x) is <<x>>.  An i32 is held   *)
(* as its 32 bits, an i8 as a number in -128..127.                         *)
(***************************************************************************)
\* `let x = value; body`: the value is computed once and named.
Let(x, Body(_)) == Body(x)

\* The ModR/M byte and its three fields; EIP moves past it.
ModRMFields(m) ==
    LET code == get_code8(m, 0)
    IN  [emu |-> IF code.ok THEN add_eip(m, 1) ELSE Panic(m),
         val |-> [mod_val |-> code.val \div 64,
                  opecode |-> (code.val \div 8) % 8,
                  rm |-> code.val % 8,
                  sib |-> <<>>, disp8 |-> <<>>, disp32 |-> <<>>]]

\* The SIB byte where mod # 3 and rm = 4.
ModRMSib(p) ==
    LET sib == get_code8(p.emu, 0)
    IN  IF ~Running(p.emu) \/ ~(p.val.mod_val # 3 /\ p.val.rm = 4) THEN p
        ELSE IF ~sib.ok THEN [p EXCEPT !.emu = Panic(@)]
        ELSE [emu |-> add_eip(p.emu, 1), val |-> [p.val EXCEPT !.sib = <<sib.val>>]]

\* The displacement the mod field asks for.
ModRMDisp(p) ==
    LET d8 == get_sign_code8(p.emu, 0)
        d32 == get_sign_code32(p.emu, 0)
    IN  IF ~Running(p.emu) THEN p
        ELSE IF p.val.mod_val = 1
        THEN (IF ~d8.ok THEN [p EXCEPT !.emu = Panic(@)]
              ELSE [emu |-> add_eip(p.emu, 1),
                    val |-> [p.val EXCEPT !.disp8 = <<d8.val>>]])
        ELSE IF (p.val.mod_val = 0 /\ p.val.rm = 5) \/ p.val.mod_val = 2
        THEN (IF ~d32.ok THEN [p EXCEPT !.emu = Panic(@)]
              ELSE [emu |-> add_eip(p.emu, 4),
                    val |-> [p.val EXCEPT !.disp32 = <<d32.val>>]])
        ELSE p

\* A decoder that would never take a SIB byte.
ParseModrmNoSib(m) == ModRMDisp(ModRMFields(m))

\* [emu, val]: the emulator after the decoder and the ModRM it returns.
parse_modrm(m) == ModRMDisp(ModRMSib(ModRMFields(m)))

\* An address computation that would take rm = 4 for the register ESP.
CalcMemoryAddressNoSib(modrm, m) ==
    CASE modrm.mod_val = 0 /\ modrm.rm = 5 /\ modrm.disp32 # <<>> ->
           [ok |-> TRUE, val |-> modrm.disp32[1]]
      [] modrm.mod_val = 1 /\ modrm.disp8 # <<>> ->
           [ok |-> TRUE,
            val |-> wrapping_add(get_register32(m, modrm.rm), I8AsU32(modrm.disp8[1]))]
      [] modrm.mod_val = 2 /\ modrm.disp32 # <<>> ->
           [ok |-> TRUE,
            val |-> wrapping_add(get_register32(m, modrm.rm), modrm.disp32[1])]
      [] OTHER -> [ok |-> modrm.mod_val = 0, val |-> get_register32(m, modrm.rm)]

\* An address computation that would zero-extend disp8.
CalcMemoryAddressZeroExtends(modrm, m) ==
    CASE modrm.mod_val = 0 /\ modrm.rm = 5 /\ modrm.disp32 # <<>> ->
           [ok |-> TRUE, val |-> modrm.disp32[1]]
      [] modrm.mod_val = 0 /\ modrm.rm \notin {4, 5} ->
           [ok |-> TRUE, val |-> get_register32(m, modrm.rm)]
      [] modrm.mod_val = 1 /\ modrm.rm # 4 /\ modrm.disp8 # <<>> ->
           [ok |-> TRUE,
            val |-> wrapping_add(get_register32(m, modrm.rm),
                                 U32(0, (modrm.disp8[1] + 256) % 256))]
      [] modrm.mod_val = 2 /\ modrm.rm # 4 /\ modrm.disp32 # <<>> ->
           [ok |-> TRUE,
            val |-> wrapping_add(get_register32(m, modrm.rm), modrm.disp32[1])]
      [] OTHER -> [ok |-> FALSE, val |-> Zero32]

\* [ok, val]: ok is FALSE where the function panics.
calc_memory_address(modrm, m) ==
    CASE modrm.mod_val = 0 ->
           IF modrm.rm = 4 THEN [ok |-> FALSE, val |-> Zero32]
           ELSE IF modrm.rm = 5
           THEN [ok |-> modrm.disp32 # <<>>,
                 val |-> IF modrm.disp32 # <<>> THEN modrm.disp32[1] ELSE Zero32]
           ELSE [ok |-> TRUE, val |-> get_register32(m, modrm.rm)]
      [] modrm.mod_val = 1 ->
           IF modrm.rm = 4 \/ modrm.disp8 = <<>> THEN [ok |-> FALSE, val |-> Zero32]
           ELSE [ok |-> TRUE,
                 val |-> wrapping_add(get_register32(m, modrm.rm),
                                      I8AsU32(modrm.disp8[1]))]
      [] modrm.mod_val = 2 ->
           IF modrm.rm = 4 \/ modrm.disp32 = <<>> THEN [ok |-> FALSE, val |-> Zero32]
           ELSE [ok |-> TRUE,
                 val |-> wrapping_add(get_register32(m, modrm.rm), modrm.disp32[1])]
      [] OTHER -> [ok |-> FALSE, val |-> Zero32]

set_rm8(modrm, m, value) ==
    LET address == calc_memory_address(modrm, m)
    IN  IF ~Running(m) THEN m
        ELSE IF modrm.mod_val = 3
        THEN (IF from_usize(modrm.rm) # <<>>
              THEN set_register8(m, from_usize(modrm.rm)[1], value)
              ELSE Panic(m))
        ELSE IF address.ok THEN set_memory8(m, address.val, value) ELSE Panic(m)

set_rm32(modrm, m, value) ==
    LET address == calc_memory_address(modrm, m)
    IN  IF ~Running(m) THEN m
        ELSE IF modrm.mod_val = 3 THEN set_register32(m, modrm.rm, value)
        ELSE IF address.ok THEN set_memory32(m, address.val, value) ELSE Panic(m)

get_rm8(modrm, m) ==
    LET address == calc_memory_address(modrm, m)
        byte == get_memory8(m, address.val)
    IN  IF modrm.mod_val = 3
        THEN [ok |-> from_usize(modrm.rm) # <<>>,
              val |-> get_register8(m, modrm.rm)]
        ELSE [ok |-> address.ok /\ byte.ok, val |-> byte.val]

get_rm32(modrm, m) ==
    LET address == calc_memory_address(modrm, m)
        word == get_memory32(m, address.val)
    IN  IF modrm.mod_val = 3
        THEN [ok |-> TRUE, val |-> get_register32(m, modrm.rm)]
        ELSE [ok |-> address.ok /\ word.ok, val |-> word.val]

set_r8(modrm, m, value) ==
    IF from_usize(modrm.opecode) # <<>>
    THEN set_register8(m, from_usize(modrm.opecode)[1], value)
    ELSE Panic(m)

set_r32(modrm, m, value) == set_register32(m, modrm.opecode, value)

get_r8(modrm, m) ==
    [ok |-> from_usize(modrm.opecode) # <<>>,
     val |-> get_register8(m, modrm.opecode)]

get_r32(modrm, m) == get_register32(m, modrm.opecode)

(***************************************************************************)
(* Port I/O (io.rs) and the BIOS teletype (bios.rs).  An element -1 of     *)
(* stdin is a read that fails.                                             *)
(***************************************************************************)
COM1 == 1016

\* A read that takes the next byte of stdin whatever the port.
IoIn8AnyPort(m, address) ==
    IF m.stdin # <<>>
    THEN [emu |-> [m EXCEPT !.stdin = Tail(@)],
          val |-> IF Head(m.stdin) \in U8 THEN Head(m.stdin) ELSE 0]
    ELSE [emu |-> m, val |-> 0]

\* [emu, val]: the emulator after the read and the byte read.
io_in8(m, address) ==
    IF address = COM1 /\ m.stdin # <<>>
    THEN [emu |-> [m EXCEPT !.stdin = Tail(@)],
          val |-> IF Head(m.stdin) \in U8 THEN Head(m.stdin) ELSE 0]
    ELSE [emu |-> m, val |-> 0]

io_out8(m, address, value) ==
    IF Running(m) /\ address = COM1
    THEN [m EXCEPT !.stdout = Append(@, value)]
    ELSE m

BIOS_TO_TERMINAL == <<30, 34, 32, 36, 31, 35, 33, 37>>

RECURSIVE put_string(_, _)
put_string(m, s) ==
    IF s = <<>> THEN m ELSE put_string(io_out8(m, COM1, Head(s)), Tail(s))

\* The UTF-8 bytes format! writes for `b as char`.
CharBytes(b) == IF b < 128 THEN <<b>> ELSE <<192 + (b \div 64), 128 + (b % 64)>>

\* The ASCII digits format! writes for a number below 100.
DecimalBytes(n) == IF n < 10 THEN <<48 + n>> ELSE <<48 + (n \div 10), 48 + (n % 10)>>

\* A teletype that never sets the bright attribute.
BiosVideoTeletypeDim(m) ==
    LET color == get_register8(m, Bl) % 16
        ch == get_register8(m, Al)
        terminal_color == BIOS_TO_TERMINAL[(color % 8) + 1]
        buf == <<27, 91>> \o DecimalBytes(0) \o <<59>>
               \o DecimalBytes(terminal_color) \o <<109>> \o CharBytes(ch)
               \o <<27, 91, 48, 109>>
    IN  put_string(m, buf)

bios_video_teletype(m) ==
    LET color == get_register8(m, Bl) % 16
        ch == get_register8(m, Al)
        terminal_color == BIOS_TO_TERMINAL[(color % 8) + 1]
        bright == IF (color \div 8) % 2 # 0 THEN 1 ELSE 0
        buf == <<27, 91>> \o DecimalBytes(bright) \o <<59>>
               \o DecimalBytes(terminal_color) \o <<109>> \o CharBytes(ch)
               \o <<27, 91, 48, 109>>
    IN  put_string(m, buf)

bios_video(m) ==
    LET func == get_register8(m, Ah)
    IN  IF func = 14 THEN bios_video_teletype(m)
        ELSE Println(m, "not implemented BIOS video function")


(***************************************************************************)
(* The instruction handlers of emulator.rs.  Each takes the emulator at    *)
(* the fetch of its opcode and returns the emulator after the handler.     *)
(***************************************************************************)
mov_r8_imm8(m) ==
    LET code == get_code8(m, 0)
        reg == from_usize(code.val - 176)
        value == get_code8(m, 1)
    IN  IF ~code.ok THEN Panic(m)
        ELSE IF reg = <<>> THEN Println(m, "Error: Invalid register index in mov_r8_imm8")
        ELSE IF ~value.ok THEN Panic(m)
        ELSE add_eip(set_register8(m, reg[1], value.val), 2)

mov_r32_imm32(m) ==
    LET code == get_code8(m, 0)
        value == get_code32(m, 1)
    IN  IF ~code.ok \/ ~value.ok THEN Panic(m)
        ELSE add_eip(set_register32(m, code.val - 184, value.val), 5)

mov_r8_rm8(m) ==
    Let(parse_modrm(add_eip(m, 1)), LAMBDA p :
        Let(get_rm8(p.val, p.emu), LAMBDA rm8 :
            IF ~Running(p.emu) THEN p.emu
            ELSE IF ~rm8.ok THEN Panic(p.emu)
            ELSE set_r8(p.val, p.emu, rm8.val)))

mov_r32_rm32(m) ==
    Let(parse_modrm(add_eip(m, 1)), LAMBDA p :
        Let(get_rm32(p.val, p.emu), LAMBDA rm32 :
            IF ~Running(p.emu) THEN p.emu
            ELSE IF ~rm32.ok THEN Panic(p.emu)
            ELSE set_r32(p.val, p.emu, rm32.val)))

add_rm32_r32(m) ==
    Let(parse_modrm(add_eip(m, 1)), LAMBDA p :
        Let(get_rm32(p.val, p.emu), LAMBDA rm32 :
            Let(CheckedAdd(p.emu, rm32.val, get_r32(p.val, p.emu)), LAMBDA sum :
                IF ~Running(p.emu) THEN p.emu
                ELSE IF ~rm32.ok \/ ~sum.ok THEN Panic(p.emu)
                ELSE set_rm32(p.val, p.emu, sum.val))))

mov_rm8_r8(m) ==
    Let(parse_modrm(add_eip(m, 1)), LAMBDA p :
        Let(get_r8(p.val, p.emu), LAMBDA r8 :
            IF ~Running(p.emu) THEN p.emu
            ELSE IF ~r8.ok THEN Panic(p.emu)
            ELSE set_rm8(p.val, p.emu, r8.val)))

mov_rm32_r32(m) ==
    Let(parse_modrm(add_eip(m, 1)), LAMBDA p :
        set_rm32(p.val, p.emu, get_r32(p.val, p.emu)))

\* An INC r32 that would leave the register as it is.
IncR32Skip(m) == add_eip(m, 1)

inc_r32(m) ==
    LET code == get_code8(m, 0)
        reg == code.val - 64
        value == CheckedAdd(m, get_register32(m, reg), W(1))
    IN  IF ~code.ok \/ ~value.ok THEN Panic(m)
        ELSE add_eip(set_register32(m, reg, value.val), 1)

push_r32(m) ==
    LET code == get_code8(m, 0)
    IN  IF ~code.ok THEN Panic(m)
        ELSE add_eip(push32(m, get_register32(m, code.val - 80)), 1)

pop_r32(m) ==
    Let(get_code8(m, 0), LAMBDA code :
        Let(pop32(m), LAMBDA p :
            IF ~code.ok THEN Panic(m)
            ELSE add_eip(set_register32(p.emu, code.val - 88, p.val), 1)))

push_imm32(m) ==
    Let(get_code32(m, 1), LAMBDA value :
        IF ~value.ok THEN Panic(m)
        ELSE add_eip(push32(m, value.val), 5))

\* A PUSH imm8 that would sign-extend the byte.
PushImm8SignExtends(m) ==
    Let(get_code8(m, 1), LAMBDA value :
        IF ~value.ok THEN Panic(m)
        ELSE add_eip(push32(m, SignExtend8(value.val)), 2))

push_imm8(m) ==
    Let(get_code8(m, 1), LAMBDA value :
        IF ~value.ok THEN Panic(m)
        ELSE add_eip(push32(m, U32(0, value.val)), 2))

\* An ADD r/m32,imm8 that would set the flags as the subtraction does.
AddRm32Imm8SetsFlags(m, modrm) ==
    Let(get_rm32(modrm, m), LAMBDA rm32 :
        Let(get_sign_code8(m, 0), LAMBDA code :
            IF ~rm32.ok \/ ~code.ok THEN Panic(m)
            ELSE update_eflags_sub(
                     set_rm32(modrm, add_eip(m, 1),
                              wrapping_add(rm32.val, I8AsU32(code.val))),
                     rm32.val, I8AsU32(code.val),
                     wrapping_sub64(AsU64(rm32.val), AsU64(I8AsU32(code.val))))))

add_rm32_imm8(m, modrm) ==
    Let(get_rm32(modrm, m), LAMBDA rm32 :
        Let(get_sign_code8(m, 0), LAMBDA code :
            IF ~rm32.ok \/ ~code.ok THEN Panic(m)
            ELSE set_rm32(modrm, add_eip(m, 1),
                          wrapping_add(rm32.val, I8AsU32(code.val)))))

\* The u64 difference `(v1 as u64).wrapping_sub(v2 as u64)` of the compares.
Difference(v1, v2) == wrapping_sub64(AsU64(v1), AsU64(v2))

cmp_rm32_imm8(m, modrm) ==
    Let(get_rm32(modrm, m), LAMBDA rm32 :
        Let(get_sign_code8(m, 0), LAMBDA code :
            IF ~rm32.ok \/ ~code.ok THEN Panic(m)
            ELSE update_eflags_sub(add_eip(m, 1), rm32.val, I8AsU32(code.val),
                                   Difference(rm32.val, I8AsU32(code.val)))))

sub_rm32_imm8(m, modrm) ==
    Let(get_rm32(modrm, m), LAMBDA rm32 :
        Let(get_sign_code8(m, 0), LAMBDA code :
            IF ~rm32.ok \/ ~code.ok THEN Panic(m)
            ELSE update_eflags_sub(
                     set_rm32(modrm, add_eip(m, 1),
                              wrapping_sub(rm32.val, I8AsU32(code.val))),
                     rm32.val, I8AsU32(code.val),
                     Difference(rm32.val, I8AsU32(code.val)))))

\* A dispatch of 0x83 that takes /7 for SUB and /5 for CMP.
Code83Swapped(m) ==
    Let(parse_modrm(add_eip(m, 1)), LAMBDA p :
        IF ~Running(p.emu) THEN p.emu
        ELSE CASE p.val.opecode = 0 -> add_rm32_imm8(p.emu, p.val)
               [] p.val.opecode = 7 -> sub_rm32_imm8(p.emu, p.val)
               [] p.val.opecode = 5 -> cmp_rm32_imm8(p.emu, p.val)
               [] OTHER -> Exit(Println(p.emu, "not implemented: 83")))

code_83(m) ==
    Let(parse_modrm(add_eip(m, 1)), LAMBDA p :
        IF ~Running(p.emu) THEN p.emu
        ELSE CASE p.val.opecode = 0 -> add_rm32_imm8(p.emu, p.val)
               [] p.val.opecode = 5 -> sub_rm32_imm8(p.emu, p.val)
               [] p.val.opecode = 7 -> cmp_rm32_imm8(p.emu, p.val)
               [] OTHER -> Exit(Println(p.emu, "not implemented: 83")))

mov_rm32_imm32(m) ==
    Let(parse_modrm(add_eip(m, 1)), LAMBDA p :
        Let(get_code32(p.emu, 0), LAMBDA value :
            IF ~Running(p.emu) THEN p.emu
            ELSE IF ~value.ok THEN Panic(p.emu)
            ELSE set_rm32(p.val, add_eip(p.emu, 4), value.val)))

in_al_dx(m) ==
    Let(io_in8(m, get_register32(m, Edx).lo), LAMBDA r :
        add_eip(set_register8(r.emu, Al, r.val), 1))

out_dx_al(m) ==
    add_eip(io_out8(m, get_register32(m, Edx).lo, get_register8(m, Al)), 1)

inc_rm32(m, modrm) ==
    Let(get_rm32(modrm, m), LAMBDA value :
        IF ~value.ok THEN Panic(m)
        ELSE set_rm32(modrm, m, wrapping_add(value.val, W(1))))

code_ff(m) ==
    Let(parse_modrm(add_eip(m, 1)), LAMBDA p :
        IF ~Running(p.emu) THEN p.emu
        ELSE IF p.val.opecode = 0 THEN inc_rm32(p.emu, p.val)
        ELSE Exit(Println(p.emu, "not implemented: FF")))

\* The new EIP of the relative transfers: eip.wrapping_add(diff + n), the
\* inner `diff + n` being a checked u32 addition.  [ok, val].
RelativeTarget(m, diff, n) ==
    LET s == CheckedAdd(m, diff, W(n))
    IN  [ok |-> s.ok, val |-> wrapping_add(m.eip, s.val)]

\* Sets EIP to the target t = [ok, val]; panics where its addition did.
JumpTo(m, t) ==
    IF ~Running(m) THEN m
    ELSE IF ~t.ok THEN Panic(m)
    ELSE [m EXCEPT !.eip = t.val]

\* A CALL that would push no return address.
CallRel32NoPush(m) ==
    Let(get_sign_code32(m, 1), LAMBDA diff :
        IF ~diff.ok THEN Panic(m) ELSE JumpTo(m, RelativeTarget(m, diff.val, 5)))

call_rel32(m) ==
    Let(get_sign_code32(m, 1), LAMBDA diff :
        Let(CheckedAdd(m, m.eip, W(5)), LAMBDA ra :
            IF ~diff.ok \/ ~ra.ok THEN Panic(m)
            ELSE JumpTo(push32(m, ra.val), RelativeTarget(m, diff.val, 5))))

\* A RET that would leave ESP where it is.
RetKeepsEsp(m) ==
    Let(pop32(m), LAMBDA p :
        IF ~Running(p.emu) THEN p.emu ELSE [m EXCEPT !.eip = p.val])

ret(m) ==
    Let(pop32(m), LAMBDA p :
        IF ~Running(p.emu) THEN p.emu ELSE [p.emu EXCEPT !.eip = p.val])

leave(m) ==
    Let(pop32(m), LAMBDA p :
        add_eip(set_register32(set_register32(p.emu, Esp, get_register32(m, Ebp)),
                               Ebp, p.val), 1))

short_jump(m) ==
    Let(get_sign_code8(m, 1), LAMBDA diff :
        IF ~diff.ok THEN Panic(m)
        ELSE JumpTo(m, RelativeTarget(m, I8AsU32(diff.val), 2)))

near_jump(m) ==
    Let(get_sign_code32(m, 1), LAMBDA diff :
        IF ~diff.ok THEN Panic(m)
        ELSE JumpTo(m, RelativeTarget(m, diff.val, 5)))

\* A CMP AL,imm8 that would compare the sign-extended bytes.
CmpAlImm8SignExtends(m) ==
    Let(get_code8(m, 1), LAMBDA value :
        Let(get_register8(m, Al), LAMBDA al :
            IF ~value.ok THEN Panic(m)
            ELSE add_eip(update_eflags_sub(m, SignExtend8(al), SignExtend8(value.val),
                                           Difference(SignExtend8(al),
                                                      SignExtend8(value.val))),
                         2)))

cmp_al_imm8(m) ==
    Let(get_code8(m, 1), LAMBDA value :
        Let(get_register8(m, Al), LAMBDA al :
            IF ~value.ok THEN Panic(m)
            ELSE add_eip(update_eflags_sub(m, U32(0, al), U32(0, value.val),
                                           Difference(U32(0, al), U32(0, value.val))),
                         2)))

cmp_eax_imm32(m) ==
    Let(get_code32(m, 1), LAMBDA value :
        Let(get_register32(m, Eax), LAMBDA eax :
            IF ~value.ok THEN Panic(m)
            ELSE add_eip(update_eflags_sub(m, eax, value.val,
                                           Difference(eax, value.val)), 5)))

cmp_r32_rm32(m) ==
    Let(parse_modrm(add_eip(m, 1)), LAMBDA p :
        Let(get_rm32(p.val, p.emu), LAMBDA rm32 :
            Let(get_r32(p.val, p.emu), LAMBDA r32 :
                IF ~Running(p.emu) THEN p.emu
                ELSE IF ~rm32.ok THEN Panic(p.emu)
                ELSE update_eflags_sub(p.emu, r32, rm32.val,
                                       Difference(r32, rm32.val)))))

\* The displacement a conditional jump adds: [ok, val], the byte being
\* read only when the jump is taken.
TakenDiff(m, taken) ==
    LET code == get_sign_code8(m, 1)
    IN  IF taken THEN code ELSE [ok |-> TRUE, val |-> 0]

conditional_jump(m, condition) ==
    Let(TakenDiff(m, condition), LAMBDA diff :
        IF ~diff.ok THEN Panic(m)
        ELSE JumpTo(m, RelativeTarget(m, I8AsU32(diff.val), 2)))

jc(m) == conditional_jump(m, is_carry(m))

jnc(m) == conditional_jump(m, ~is_carry(m))

\* A JZ that would jump on ZF = 0.
JzInverted(m) == conditional_jump(m, ~is_zero(m))

jz(m) == conditional_jump(m, is_zero(m))

jnz(m) == conditional_jump(m, ~is_zero(m))

js(m) == conditional_jump(m, is_sign(m))

jns(m) == conditional_jump(m, ~is_sign(m))

jo(m) == conditional_jump(m, is_overflow(m))

jno(m) == conditional_jump(m, ~is_overflow(m))

jl(m) ==
    Let(TakenDiff(m, is_sign(m) # is_overflow(m)), LAMBDA diff :
        IF ~diff.ok THEN Panic(m)
        ELSE JumpTo(m, RelativeTarget(m, I8AsU32(diff.val), 2)))

jle(m) ==
    Let(TakenDiff(m, is_zero(m) \/ (is_sign(m) # is_overflow(m))), LAMBDA diff :
        IF ~diff.ok THEN Panic(m)
        ELSE JumpTo(m, RelativeTarget(m, I8AsU32(diff.val), 2)))

swi(m) ==
    Let(get_code8(m, 1), LAMBDA int_index :
        IF ~int_index.ok THEN Panic(m)
        ELSE IF int_index.val = 16 THEN bios_video(add_eip(m, 2))
        ELSE Println(add_eip(m, 2), "unknown interrupt"))

(***************************************************************************)
(* The dispatch table and the run loop of main.                            *)
(***************************************************************************)
init_instructions ==
    (1 :> "AddRm32R32")
    @@ (59 :> "CmpR32Rm32") @@ (60 :> "CmpAlImm8") @@ (61 :> "CmpEaxImm32")
    @@ [i \in 64 .. 71 |-> "IncR32"]
    @@ [i \in 80 .. 87 |-> "PushR32"]
    @@ [i \in 88 .. 95 |-> "PopR32"]
    @@ (104 :> "PushImm32") @@ (106 :> "PushImm8")
    @@ (112 :> "Jo") @@ (113 :> "Jno") @@ (114 :> "Jc") @@ (115 :> "Jnc")
    @@ (116 :> "Jz") @@ (117 :> "Jnz") @@ (120 :> "Js") @@ (121 :> "Jns")
    @@ (124 :> "Jl") @@ (126 :> "Jle")
    @@ (131 :> "Code83") @@ (136 :> "MovRm8R8") @@ (137 :> "MovRm32R32")
    @@ (138 :> "MovR8Rm8") @@ (139 :> "MovR32Rm32")
    @@ [i \in 176 .. 183 |-> "MovR8Imm8"]
    @@ [i \in 184 .. 191 |-> "MovR32Imm32"]
    @@ (195 :> "Ret") @@ (199 :> "MovRm32Imm32") @@ (201 :> "Leave")
    @@ (205 :> "Swi")
    @@ (232 :> "CallRel32") @@ (233 :> "NearJump") @@ (235 :> "ShortJump")
    @@ (236 :> "InAlDx") @@ (238 :> "OutDxAl") @@ (255 :> "CodeFf")

\* Emulator::new(memory_size, eip, esp)
new(eip0, esp0) ==
    [registers |-> [i \in 0 .. 7 |-> IF i = Esp THEN esp0 ELSE Zero32],
     eflags |-> 0,
     memory |-> <<>>,
     eip |-> eip0]

LOAD_ADDRESS == 31744

SECTOR_SIZE == 512

\* A loader that copies the whole file, however long.
ReadBinaryWhole(mem, file) ==
    [a \in LOAD_ADDRESS .. (LOAD_ADDRESS + Len(file) - 1) |-> file[a - LOAD_ADDRESS + 1]]
    @@ mem

\* read_binary: the file's leading bytes, SECTOR_SIZE at most, over
\* memory[0x7c00 .. 0x7c00 + 0x200].
read_binary(mem, file) ==
    LET n == IF Len(file) < SECTOR_SIZE THEN Len(file) ELSE SECTOR_SIZE
    IN  [a \in LOAD_ADDRESS .. (LOAD_ADDRESS + n - 1) |-> file[a - LOAD_ADDRESS + 1]]
        @@ mem

\* `(emu.eip as usize) < MEMORY_SIZE`, the condition of the loop.
InMemory(w) == ~TooBig(w) /\ AsUsize(w) < MEMORY_SIZE

\* A loop that would not test for the end of the program.
EndOfProgramNever(m) == FALSE

\* The test that ends the loop after an instruction: `emu.eip == 0`.
EndOfProgram(m) == m.eip = Zero32

\* The emulator after a step, into the variables.
Commit(m) ==
    /\ registers' = m.registers
    /\ eflags' = m.eflags
    /\ memory' = m.memory
    /\ eip' = m.eip
    /\ fault' = m.fault
    /\ stdout' = m.stdout
    /\ stdin' = m.stdin
    /\ diag' = m.diag

HistLen == 8

Remember(m) == hist' = SubSeq(<<m>> \o hist, 1, IF Len(hist) < HistLen THEN Len(hist) + 1 ELSE HistLen)

\* dump_registers
dump_registers(m) == <<m.registers, m.eip>>

\* main: the image is read into the memory of the new emulator.
ReadBinary ==
    /\ halt = "load"
    /\ memory' = read_binary(memory, image)
    /\ halt' = "run"
    /\ UNCHANGED <<registers, eflags, eip, fault, dump, stdout, stdin, diag,
                   overflow_checks, instructions, image, hist, call>>

\* The end of a round of the loop of main, m being the emulator after the
\* handler: the process has aborted, or EIP is 0 and the loop is left (the
\* registers are dumped), or the loop goes on.
Finish(m) ==
    /\ Commit(IF Running(m) /\ EndOfProgram(m) THEN Println(m, "end of program.") ELSE m)
    /\ halt' = IF ~Running(m) THEN "aborted"
               ELSE IF EndOfProgram(m) THEN "end_of_program" ELSE "run"
    /\ dump' = IF Running(m) /\ EndOfProgram(m) THEN dump_registers(m) ELSE dump

\* One round of the loop of main for an opcode the table maps to
\* `instruction`: the fetch, the arm of execute_instruction for it (after
\* is the emulator its handler returns), and the test for the end.
Step(instruction, after) ==
    /\ halt = "run"
    /\ InMemory(eip)
    /\ get_code8(Self, 0).val \in DOMAIN instructions
    /\ instructions[get_code8(Self, 0).val] = instruction
    /\ Finish(after)
    /\ Remember(Self)
    /\ UNCHANGED <<overflow_checks, instructions, image, call>>

\* A round that would step over a byte the table does not hold.
NotImplementedSkips ==
    /\ halt = "run"
    /\ InMemory(eip)
    /\ get_code8(Self, 0).val \notin DOMAIN instructions
    /\ eip' = wrapping_add(eip, W(1))
    /\ UNCHANGED <<registers, eflags, memory, fault, halt, dump, stdout, stdin, diag,
                   overflow_checks, instructions, image, hist, call>>

\* The round of the loop for an opcode the table does not hold.
NotImplemented ==
    /\ halt = "run"
    /\ InMemory(eip)
    /\ get_code8(Self, 0).val \notin DOMAIN instructions
    /\ diag' = Append(diag, "Not Implemented")
    /\ halt' = "not_implemented"
    /\ dump' = dump_registers(Self)
    /\ UNCHANGED <<registers, eflags, memory, eip, fault, stdout, stdin,
                   overflow_checks, instructions, image, hist, call>>

\* The loop's condition fails: EIP is outside the memory.
LeaveMemory ==
    /\ halt = "run"
    /\ ~InMemory(eip)
    /\ halt' = "out_of_bounds"
    /\ dump' = dump_registers(Self)
    /\ UNCHANGED <<registers, eflags, memory, eip, fault, stdout, stdin, diag,
                   overflow_checks, instructions, image, hist, call>>

MovR8Imm8 == Step("MovR8Imm8", mov_r8_imm8(Self))

MovR32Imm32 == Step("MovR32Imm32", mov_r32_imm32(Self))

MovR8Rm8 == Step("MovR8Rm8", mov_r8_rm8(Self))

MovR32Rm32 == Step("MovR32Rm32", mov_r32_rm32(Self))

AddRm32R32 == Step("AddRm32R32", add_rm32_r32(Self))

MovRm8R8 == Step("MovRm8R8", mov_rm8_r8(Self))

MovRm32R32 == Step("MovRm32R32", mov_rm32_r32(Self))

IncR32 == Step("IncR32", inc_r32(Self))

PushR32 == Step("PushR32", push_r32(Self))

PopR32 == Step("PopR32", pop_r32(Self))

PushImm32 == Step("PushImm32", push_imm32(Self))

PushImm8 == Step("PushImm8", push_imm8(Self))

Code83 == Step("Code83", code_83(Self))

MovRm32Imm32 == Step("MovRm32Imm32", mov_rm32_imm32(Self))

InAlDx == Step("InAlDx", in_al_dx(Self))

OutDxAl == Step("OutDxAl", out_dx_al(Self))

CodeFf == Step("CodeFf", code_ff(Self))

CallRel32 == Step("CallRel32", call_rel32(Self))

Ret == Step("Ret", ret(Self))

Leave == Step("Leave", leave(Self))

ShortJump == Step("ShortJump", short_jump(Self))

NearJump == Step("NearJump", near_jump(Self))

CmpAlImm8 == Step("CmpAlImm8", cmp_al_imm8(Self))

CmpEaxImm32 == Step("CmpEaxImm32", cmp_eax_imm32(Self))

CmpR32Rm32 == Step("CmpR32Rm32", cmp_r32_rm32(Self))

Jc == Step("Jc", jc(Self))

Jnc == Step("Jnc", jnc(Self))

Jz == Step("Jz", jz(Self))

Jnz == Step("Jnz", jnz(Self))

Js == Step("Js", js(Self))

Jns == Step("Jns", jns(Self))

Jo == Step("Jo", jo(Self))

Jno == Step("Jno", jno(Self))

Jl == Step("Jl", jl(Self))

Jle == Step("Jle", jle(Self))

Swi == Step("Swi", swi(Self))


(***************************************************************************)
(* The images the runs are checked on.  Each is the contents of a file, a  *)
(* sequence of bytes; what follows the image in memory is zero, and 0x00   *)
(* is no opcode of the table, so a run that falls off its image stops.     *)
(***************************************************************************)
\* The four bytes of a u32, least significant first.
LE32(w) == <<w.lo % 256, w.lo \div 256, w.hi % 256, w.hi \div 256>>

\* S2: PUSH 0; MOV EBX,5; INC EBX; INC EBX; RET
ProgS2 == <<\h6A, 0, \hBB, 5, 0, 0, 0, \h43, \h43, \hC3>>

\* S3 and S4: MOV EAX,0x2A; CMP EAX,imm; JZ +3; INC EAX (3 times); PUSH 0; RET
ProgS3(imm) ==
    <<\hB8, \h2A, 0, 0, 0, \h3D, imm, 0, 0, 0, \h74, 3,
      \h40, \h40, \h40, \h6A, 0, \hC3>>

\* S5: CALL +5; PUSH 0; RET; RET
ProgS5 == <<\hE8, 5, 0, 0, 0, \h6A, 0, \hC3, \hC3>>

\* S5 with the displacement that reaches the trailing RET: CALL +3
ProgS5Reaching == <<\hE8, 3, 0, 0, 0, \h6A, 0, \hC3, \hC3>>

\* S1: MOV EBX,0x20; JMP +0
ProgS1 == <<\hBB, \h20, 0, 0, 0, \hE9, 0, 0, 0, 0>>

\* A walk through the rest of the table: port I/O, the BIOS call, the
\* ModR/M moves, ADD, INC r/m32, the stack and LEAVE, and the jumps.
ProgTour ==
    <<\hB8, \h78, \h56, \h34, \h12,        \* MOV EAX,0x12345678
      \hBA, \hF8, 3, 0, 0,                 \* MOV EDX,0x3F8
      \hEE,                                \* OUT DX,AL
      \hEC,                                \* IN AL,DX
      \hB4, \h0E,                          \* MOV AH,0x0E
      \hB3, \h0F,                          \* MOV BL,0x0F
      \hCD, \h10,                          \* INT 0x10
      \hCD, \h21,                          \* INT 0x21
      \h3C, \h41,                          \* CMP AL,0x41
      \h55,                                \* PUSH EBP
      \h89, \hE5,                          \* MOV EBP,ESP
      \h68, \h44, \h33, \h22, \h11,        \* PUSH 0x11223344
      \hC7, \h45, \hFC, \h2A, 0, 0, 0,     \* MOV [EBP-4],0x2A
      \h8B, \h4D, \hFC,                    \* MOV ECX,[EBP-4]
      \h01, \hC8,                          \* ADD EAX,ECX
      \hFF, \hC1,                          \* INC ECX
      \h88, \hCC,                          \* MOV AH,CL
      \h8A, \hD8,                          \* MOV BL,AL
      \h59,                                \* POP ECX
      \hC9,                                \* LEAVE
      \hEB, 0,                             \* JMP +0
      \hE9, 0, 0, 0, 0,                    \* JMP +0
      \h6A, 0,                             \* PUSH 0
      \hC3>>                               \* RET

\* JMP rel32 out of the memory: the loop's condition ends the run.
ProgFarJump == <<\hE9, 0, 0, \h10, 0>>

\* The fatal errors: an unimplemented 0x83 /1 and 0xFF /1, a ModR/M byte
\* that asks for a SIB byte, a pop from outside the memory.
ProgFatal ==
    { <<\h83, \hC8, 1>>,                        \* 83 /1
      <<\hFF, \hC8>>,                           \* FF /1
      <<\h8B, \h04, \h24>>,                     \* MOV EAX,[ESP] (SIB)
      <<\hBC, 0, 0, \h10, 0, \h58>>,            \* MOV ESP,0x100000; POP EAX
      <<\hBC, 2, 0, 0, 0, \h50>> }              \* MOV ESP,2; PUSH EAX

ScenarioImmediates == {\h2A, \h2B}

Scenarios ==
    {ProgS1, ProgS2, ProgS5, ProgS5Reaching, ProgTour, ProgFarJump}
    \cup {ProgS3(imm) : imm \in ScenarioImmediates}
    \cup ProgFatal

\* The operand values the instruction families below are run on.
MaxU32 == U32(Half - 1, Half - 1)

MinI32 == U32(2 ^ 15, 0)

MaxI32 == U32(2 ^ 15 - 1, Half - 1)

\* Pairs <<v1, v2>> of a subtraction v1 - v2: those of the flag tests, and
\* two more for the flag states these do not produce.
BoundaryPairs ==
    { <<W(0), W(0)>>, <<W(0), W(1)>>, <<W(1), W(0)>>, <<MinI32, W(1)>>,
      <<MaxI32, MaxU32>>, <<MaxU32, MaxU32>>,
      <<MaxU32, W(1)>>, <<W(1), MaxU32>> }

BoundaryValues == {W(0), W(1), MaxI32, MinI32, MaxU32, U32(Half - 1, Half - 128)}

BoundaryImm8 == {0, 1, \h7F, \h80, \hFF}

\* MOV EAX,v1; CMP EAX,v2
CmpEaxImm32Prog(v1, v2) == <<\hB8>> \o LE32(v1) \o <<\h3D>> \o LE32(v2)

\* MOV EAX,v1; MOV ECX,v2; CMP EAX,ECX
CmpRegProg(v1, v2) ==
    <<\hB8>> \o LE32(v1) \o <<\hB9>> \o LE32(v2) \o <<\h3B, \hC1>>

\* MOV EAX,v1; PUSH v2; MOV ECX,ESP; CMP EAX,[ECX]
CmpMemProg(v1, v2) ==
    <<\hB8>> \o LE32(v1) \o <<\h68>> \o LE32(v2) \o <<\h89, \hE1, \h3B, \h01>>

\* MOV EAX,v1; 83 /n EAX,imm8 (modrm = C0 + 8n)
Group83Prog(v1, n, imm8) == <<\hB8>> \o LE32(v1) \o <<\h83, \hC0 + 8 * n, imm8>>

CmpImages ==
    {CmpEaxImm32Prog(pr[1], pr[2]) : pr \in BoundaryPairs}
    \cup {CmpRegProg(pr[1], pr[2]) : pr \in BoundaryPairs}
    \cup {CmpMemProg(pr[1], pr[2]) : pr \in BoundaryPairs}
    \cup {Group83Prog(v, n, b) : v \in BoundaryValues, n \in {0, 5, 7}, b \in BoundaryImm8}

\* The conditional jumps of the table and the displacements they are run
\* with: forward, backward (0x80 is -128), onto themselves (0xFE is -2).
JccOpcodes == {\h70, \h71, \h72, \h73, \h74, \h75, \h78, \h79, \h7C, \h7E}

Displacements == {0, 3, \h7F, \h80, \hFD, \hFE, \hFF}

\* MOV EAX,v1; CMP EAX,v2; Jcc d
JccProg(v1, v2, op, d) == CmpEaxImm32Prog(v1, v2) \o <<op, d>>

JccImages ==
    {JccProg(pr[1], pr[2], op, d) : pr \in BoundaryPairs, op \in JccOpcodes,
                                    d \in Displacements}

\* CALL to a RET.  MOV ESP,esp; MOV EBX,v1; MOV EAX,v1; CMP EAX,v2; then
\* either CALL +3; three bytes; RET, or JMP +1; RET; CALL -6.
CallSetup(esp, v1, v2) ==
    <<\hBC>> \o LE32(esp) \o <<\hBB>> \o LE32(v1) \o CmpEaxImm32Prog(v1, v2)

CallForwardProg(esp, v1, v2) ==
    CallSetup(esp, v1, v2) \o <<\hE8, 3, 0, 0, 0, 0, 0, 0, \hC3>>

CallBackwardProg(esp, v1, v2) ==
    CallSetup(esp, v1, v2) \o <<\hEB, 1, \hC3, \hE8, \hFA, \hFF, \hFF, \hFF>>

\* The stack pointers of the calls: inside the memory, at its two ends,
\* outside it, and on the RET the forward call goes to (at 0x7C1C).
CallEsps ==
    {W(LOAD_ADDRESS), W(0), W(2), W(4), W(MEMORY_SIZE), W(MEMORY_SIZE + 2), MaxU32,
     W(LOAD_ADDRESS + 29), W(LOAD_ADDRESS + 31), W(LOAD_ADDRESS + 32)}

CallPairs == {<<W(0), W(0)>>, <<MaxI32, MaxU32>>, <<MinI32, W(1)>>}

CallImages ==
    {CallForwardProg(e, pr[1], pr[2]) : e \in CallEsps, pr \in CallPairs}
    \cup {CallBackwardProg(e, pr[1], pr[2]) : e \in CallEsps, pr \in CallPairs}

\* 8-bit register writes.  MOV EAX..EBX with four different words, then
\* MOV r8,imm8, or MOV r/m8,r8 or MOV r8,r/m8 between registers (mod = 3).
FillRegisters ==
    <<\hB8, \h44, \h33, \h22, \h11, \hB9, \h88, \h77, \h66, \h55,
      \hBA, \hCC, \hBB, \hAA, \h99, \hBB, \h00, \hFF, \hEE, \hDD>>

ByteValues == {0, \h5A, \hFF}

Reg8Images ==
    {FillRegisters \o <<\hB0 + r, b>> : r \in 0 .. 7, b \in ByteValues}
    \cup {FillRegisters \o <<op, \hC0 + rr>> : op \in {\h88, \h8A}, rr \in 0 .. 63}

\* A ModR/M byte that asks for a SIB byte (mod < 3, rm = 4) after each
\* opcode that decodes one; a SIB byte, a displacement and an immediate follow.
ModRMOpcodes == {\h01, \h3B, \h83, \h88, \h89, \h8A, \h8B, \hC7, \hFF}

SibImages ==
    {FillRegisters \o <<op, (mod * 64) + (reg * 8) + 4, \h24, 1, 0, 0, 0, 2, 0, 0, 0>> :
        op \in ModRMOpcodes, mod \in 0 .. 2, reg \in 0 .. 7}

\* One byte that the table does not hold.
UnknownImages == {<<op>> : op \in (0 .. 255) \ DOMAIN init_instructions}

\* MOV EAX,0x11223344; MOV EDX,port; then OUT DX,AL or IN AL,DX
PortProg(port, op) ==
    <<\hB8, \h44, \h33, \h22, \h11, \hBA>> \o LE32(port) \o <<op>>

Ports == {W(COM1), W(COM1 + 1), W(0), U32(1, COM1), U32(Half - 1, COM1 - 256)}

PortImages == {PortProg(port, op) : port \in Ports, op \in {\hEC, \hEE}}

\* MOV AH,ah; MOV AL,al; MOV BL,bl; INT n
IntProg(ah, al, bl, n) == <<\hB4, ah, \hB0, al, \hB3, bl, \hCD, n>>

IntImages ==
    {IntProg(ah, al, bl, n) : ah \in {\h0E, 0, \h0F}, al \in {\h48, 0, \h7F, \hE9},
                              bl \in {0, 1, 6, \h0F, \h17, \hF8}, n \in {\h10, \h21}}

\* Files of 0, 512, 513 and 520 bytes.
FileOf(n) == [i \in 1 .. n |-> \h90]

LoaderImages == {FileOf(0), FileOf(SECTOR_SIZE), FileOf(SECTOR_SIZE + 1), FileOf(SECTOR_SIZE + 8)}

\* MOV ESP,esp; PUSH 0x11111111; PUSH 0x22222222; MOV EBP,ebp; LEAVE
LeaveProg(esp, ebp) ==
    <<\hBC>> \o LE32(esp) \o <<\h68, \h11, \h11, \h11, \h11, \h68, \h22, \h22, \h22, \h22, \hBD>>
    \o LE32(ebp) \o <<\hC9>>

LeaveImages ==
    {LeaveProg(W(LOAD_ADDRESS), ebp) :
        ebp \in {W(LOAD_ADDRESS - 4), W(LOAD_ADDRESS - 8), W(0), W(MEMORY_SIZE), W(MEMORY_SIZE - 4)}}
    \cup {LeaveProg(W(MEMORY_SIZE), W(MEMORY_SIZE - 4)), LeaveProg(W(8), W(LOAD_ADDRESS))}

\* JMP rel8, JMP rel32, and CALL rel32 with room for three pushes.
Rel32s ==
    {W(0), W(3), MaxU32, U32(Half - 1, Half - 2), U32(Half - 1, Half - 3),
     U32(Half - 1, Half - 4), U32(Half - 1, Half - 5), U32(Half - 1, Half - 6),
     U32(Half - 1, Half - 128), MaxI32, MinI32}

JumpImages ==
    {<<\hEB, d>> : d \in Displacements}
    \cup {<<\hE9>> \o LE32(rel) : rel \in Rel32s}
    \cup {<<\hBC, 12, 0, 0, 0, \hE8>> \o LE32(rel) : rel \in Rel32s}

\* MOV EAX,v1; CMP EAX,v2; MOV ECX,v2; ADD EAX,ECX, and the same sum into
\* the memory: PUSH v1; MOV EBX,ESP; ADD [EBX],ECX.
AddRegProg(v1, v2) ==
    CmpEaxImm32Prog(v1, v2) \o <<\hB9>> \o LE32(v2) \o <<\h01, \hC8>>

AddMemProg(v1, v2) ==
    CmpEaxImm32Prog(v1, v2) \o <<\hB9>> \o LE32(v2) \o <<\h68>> \o LE32(v1)
    \o <<\h89, \hE3, \h01, \h0B>>

AddPairs == BoundaryPairs \cup {<<MinI32, MinI32>>, <<MaxI32, W(1)>>, <<U32(\h1234, \hFFFF), U32(0, 1)>>}

AddImages ==
    {AddRegProg(pr[1], pr[2]) : pr \in AddPairs} \cup {AddMemProg(pr[1], pr[2]) : pr \in AddPairs}

\* CMP EAX,1; MOV r,v; then INC r (0x40 + r), INC r (FF /0), or
\* PUSH v; MOV EBX,ESP; INC dword [EBX].
IncValues == {W(0), W(\hFFFF), MaxI32, MaxU32}

IncImages ==
    {<<\h3D, 1, 0, 0, 0, \hB8 + r>> \o LE32(v) \o <<\h40 + r>> : r \in 0 .. 7, v \in IncValues}
    \cup {<<\h3D, 1, 0, 0, 0, \hB8 + r>> \o LE32(v) \o <<\hFF, \hC0 + r>> : r \in 0 .. 7, v \in IncValues}
    \cup {<<\h3D, 1, 0, 0, 0, \h68>> \o LE32(v) \o <<\h89, \hE3, \hFF, \h03>> : v \in IncValues}

\* CMP EAX,1; PUSH v; MOV EBX,ESP; 83 /n dword [EBX],imm8
Group83MemProg(v, n, imm8) ==
    <<\h3D, 1, 0, 0, 0, \h68>> \o LE32(v) \o <<\h89, \hE3, \h83, 8 * n + 3, imm8>>

\* CMP EAX,1; MOV EDX,v; 83 /n EDX,imm8
Group83RegProg(v, n, imm8) ==
    <<\h3D, 1, 0, 0, 0, \hBA>> \o LE32(v) \o <<\h83, \hC2 + 8 * n, imm8>>

Group83Images ==
    {Group83MemProg(v, n, b) : v \in BoundaryValues, n \in {0, 5, 7}, b \in BoundaryImm8}
    \cup {Group83RegProg(v, n, b) : v \in BoundaryValues, n \in {0, 5, 7}, b \in {1, \hFF}}
    \cup {Group83MemProg(MaxU32, n, 1) : n \in {1, 2, 3, 4, 6}}
    \cup {Group83RegProg(MaxU32, n, 1) : n \in {1, 2, 3, 4, 6}}

\* Pushes followed by as many pops.  MOV ESP,esp; MOV EAX,0x11223344; then
\* the pushes and the pops.
StackProg(esp, body) == <<\hBC>> \o LE32(esp) \o <<\hB8, \h44, \h33, \h22, \h11>> \o body

StackBodies ==
    {   \* PUSH 0; PUSH 0x80; PUSH EAX; PUSH ESP; POP ECX; POP EDX; POP EBX; RET
        <<\h68, 0, 0, 0, 0, \h6A, \h80, \h50, \h54, \h59, \h5A, \h5B, \hC3>>,
        \* PUSH EAX; PUSH 0x7F; CALL +0; POP ESI; POP EDI; POP EBP
        <<\h50, \h6A, \h7F, \hE8, 0, 0, 0, 0, \h5E, \h5F, \h5D>>,
        \* PUSH 0xCAFEBABE; PUSH ESP; POP EAX; POP ECX
        <<\h68, \hBE, \hBA, \hFE, \hCA, \h54, \h58, \h59>>,
        \* PUSH 0x7C40; POP ESP
        <<\h68, \h40, \h7C, 0, 0, \h5C>>,
        \* PUSH ESP; POP ESP
        <<\h54, \h5C>> }
    \cup {<<\h50 + r, \h58 + ((r + 3) % 8)>> : r \in 0 .. 7}

StackEsps == {W(LOAD_ADDRESS), W(MEMORY_SIZE), W(16), W(LOAD_ADDRESS + 64)}

StackImages == {StackProg(esp, body) : esp \in StackEsps, body \in StackBodies}

\* MOV EAX,0x80000000; CMP EAX,1 (sets OF); MOV EAX,0xFFFFFF00 + al;
\* CMP AL,imm8; Jcc +3
CmpAlProg(al, imm8, op) ==
    <<\hB8, 0, 0, 0, \h80, \h3D, 1, 0, 0, 0, \hB8, al, \hFF, \hFF, \hFF, \h3C, imm8, op, 3>>

CmpAlImages ==
    {CmpAlProg(al, imm8, op) : al \in BoundaryImm8, imm8 \in BoundaryImm8,
                               op \in {\h70, \h72, \h78, \h7C}}

\* The images of the runs, and the standard inputs they are run with.
Images ==
    CmpAlImages \cup StackImages \cup Group83Images \cup Scenarios \cup CmpImages \cup JccImages \cup CallImages \cup Reg8Images
    \cup SibImages \cup UnknownImages \cup IntImages \cup LoaderImages
    \cup LeaveImages \cup JumpImages \cup AddImages \cup IncImages

Inputs == {<<>>, <<72, 105>>, <<-1>>}

Runs ==
    {[image |-> i, stdin |-> <<>>] : i \in Images}
    \cup {[image |-> i, stdin |-> in] : i \in {ProgTour} \cup PortImages, in \in Inputs}

(***************************************************************************)
(* The specification of a run of main.                                     *)
(***************************************************************************)
\* main after Emulator::new(MEMORY_SIZE, 0x7c00, 0x7c00) and
\* init_instructions, in either build, before the image is read.
Init ==
    \E r \in Runs, checks \in BOOLEAN :
        LET emu == new(W(LOAD_ADDRESS), W(LOAD_ADDRESS))
        IN  /\ registers = emu.registers
            /\ eflags = emu.eflags
            /\ memory = emu.memory
            /\ eip = emu.eip
            /\ fault = "none"
            /\ halt = "load"
            /\ dump = <<>>
            /\ stdout = <<>>
            /\ stdin = r.stdin
            /\ diag = <<>>
            /\ overflow_checks = checks
            /\ instructions = init_instructions
            /\ image = r.image
            /\ hist = <<>>
            /\ call = <<>>

Next ==
    \/ ReadBinary
    \/ MovR8Imm8 \/ MovR32Imm32 \/ MovR8Rm8 \/ MovR32Rm32 \/ AddRm32R32
    \/ MovRm8R8 \/ MovRm32R32 \/ IncR32 \/ PushR32 \/ PopR32 \/ PushImm32
    \/ PushImm8 \/ Code83 \/ MovRm32Imm32 \/ InAlDx \/ OutDxAl \/ CodeFf
    \/ CallRel32 \/ Ret \/ Leave \/ ShortJump \/ NearJump \/ CmpAlImm8
    \/ CmpEaxImm32 \/ CmpR32Rm32
    \/ Jc \/ Jnc \/ Jz \/ Jnz \/ Js \/ Jns \/ Jo \/ Jno \/ Jl \/ Jle
    \/ Swi
    \/ NotImplemented
    \/ LeaveMemory

Spec == Init /\ [][Next]_vars

(***************************************************************************)
(* The specification of the calls on an emulator: the stack and the        *)
(* 32-bit memory accessors, called on an emulator that main has loaded.    *)
(***************************************************************************)
UnitEsps ==
    {W(LOAD_ADDRESS), W(0), W(3), W(4), W(LOAD_ADDRESS + 8), W(MEMORY_SIZE),
     W(MEMORY_SIZE + 1), W(MEMORY_SIZE + 4), MaxU32}

UnitAddresses ==
    {W(0), W(1), W(LOAD_ADDRESS - 2), W(LOAD_ADDRESS + 1), W(LOAD_ADDRESS + 16),
     W(MEMORY_SIZE - 4), W(MEMORY_SIZE - 3), W(MEMORY_SIZE), MaxU32}

UnitValues == {W(0), W(\hFF), U32(\h1234, \h5678), MinI32, MaxU32}

\* Emulator::new(MEMORY_SIZE, 0x7c00, esp) and read_binary of an image.
UnitInit ==
    \E esp \in UnitEsps, checks \in BOOLEAN :
        LET emu == new(W(LOAD_ADDRESS), esp)
        IN  /\ registers = emu.registers
            /\ eflags = emu.eflags
            /\ memory = read_binary(emu.memory, FillRegisters)
            /\ eip = emu.eip
            /\ fault = "none"
            /\ halt = "unit"
            /\ dump = <<>>
            /\ stdout = <<>>
            /\ stdin = <<>>
            /\ diag = <<>>
            /\ overflow_checks = checks
            /\ instructions = init_instructions
            /\ image = FillRegisters
            /\ hist = <<>>
            /\ call = <<>>

\* A call in the log: the emulator before it, its arguments, what it returned.
Called(op, address, value, returned) ==
    [op |-> op, before |-> Self, address |-> address, value |-> value, ret |-> returned]

UnitFrame == UNCHANGED <<halt, dump, overflow_checks, instructions, image, hist>>

UnitPush32 ==
    \E value \in UnitValues :
        /\ halt = "unit" /\ call = <<>>
        /\ Commit(push32(Self, value))
        /\ call' = <<Called("push32", Zero32, value, Zero32)>>
        /\ UnitFrame

UnitPop32 ==
    /\ halt = "unit" /\ Len(call) = 1 /\ call[1].op = "push32"
    /\ Running(Self)
    /\ Commit(pop32(Self).emu)
    /\ call' = Append(call, Called("pop32", Zero32, Zero32, pop32(Self).val))
    /\ UnitFrame

UnitSetMemory32 ==
    \E address \in UnitAddresses, value \in UnitValues :
        /\ halt = "unit" /\ call = <<>>
        /\ Commit(set_memory32(Self, address, value))
        /\ call' = <<Called("set_memory32", address, value, Zero32)>>
        /\ UnitFrame

\* A failed read panics; the emulator is as before otherwise.
UnitGetMemory32 ==
    /\ halt = "unit" /\ Len(call) = 1 /\ call[1].op = "set_memory32"
    /\ Running(Self)
    /\ Commit(IF get_memory32(Self, call[1].address).ok THEN Self ELSE Panic(Self))
    /\ call' = Append(call, Called("get_memory32", call[1].address, Zero32,
                                  get_memory32(Self, call[1].address).val))
    /\ UnitFrame

UnitNext == UnitPush32 \/ UnitPop32 \/ UnitSetMemory32 \/ UnitGetMemory32

UnitSpec == UnitInit /\ [][UnitNext]_vars

(***************************************************************************)
(* Calls of the decoder parse_modrm and of the operand accessors of        *)
(* modrm.rs on a ModR/M byte at EIP, with registers that hold addresses    *)
(* and marked memory cells.                                                *)
(***************************************************************************)
\* The bytes after the ModR/M byte: disp8 +16 / disp32 0x9010, and -16.
DecodeTails == {<<\h10, \h90, 0, 0, 0>>, <<\hF0, \hFF, \hFF, \hFF, \hFF>>}

\* Register files: in-bounds addresses with distinct bytes, and addresses
\* just below 2^32.
DecodeBases ==
    {[r \in 0 .. 7 |-> U32(r, \h8001 + (\h101 * r))],
     [r \in 0 .. 7 |-> U32(Half - 1, (Half - 16) + r)]}

DecodeDisplacements == {W(0), W(16), W(\h9010), U32(Half - 1, Half - 16)}

\* The in-bounds dwords the operands of a register file can address.
DecodeCells(base) ==
    LET words == {wrapping_add(w, d) :
                      w \in {base[r] : r \in 0 .. 7} \cup {W(0)},
                      d \in DecodeDisplacements}
        inside == {w \in words : ~TooBig(w) /\ AsUsize(w) < MEMORY_SIZE - 3}
    IN  {AsUsize(w) + k : w \in inside, k \in 0 .. 3}

\* The mark of the memory cell a: a non-zero byte.
Mark(a) == (a % 251) + 1

DecodeInit ==
    \E modrm \in 0 .. 255, tail \in DecodeTails, base \in DecodeBases, checks \in BOOLEAN :
        LET emu == new(W(LOAD_ADDRESS), W(LOAD_ADDRESS))
        IN  /\ registers = base
            /\ eflags = emu.eflags
            /\ memory = read_binary([a \in DecodeCells(base) |-> Mark(a)], <<modrm>> \o tail)
            /\ eip = emu.eip
            /\ fault = "none"
            /\ halt = "decode"
            /\ dump = <<>>
            /\ stdout = <<>>
            /\ stdin = <<>>
            /\ diag = <<>>
            /\ overflow_checks = checks
            /\ instructions = init_instructions
            /\ image = <<modrm>> \o tail
            /\ hist = <<>>
            /\ call = <<>>

DecodeByte == \hA5

DecodeWord == U32(\hCAFE, \hBABE)

\* The ModRM the decoder returned.
Decoded == call[1].ret

\* The accessors are called on the ModRM the decoder returned.
DecodeReady == halt = "decode" /\ Len(call) = 1 /\ Running(Self)

\* The emulator after a read that returned [ok, val].
AfterRead(r) == IF r.ok THEN Self ELSE Panic(Self)

DecodeParseModrm ==
    /\ halt = "decode" /\ call = <<>>
    /\ Commit(parse_modrm(Self).emu)
    /\ call' = <<Called("parse_modrm", Zero32, Zero32, parse_modrm(Self).val)>>
    /\ UnitFrame

DecodeSetRm8 ==
    /\ DecodeReady
    /\ Commit(set_rm8(Decoded, Self, DecodeByte))
    /\ call' = Append(call, Called("set_rm8", Zero32, DecodeByte, 0))
    /\ UnitFrame

DecodeSetRm32 ==
    /\ DecodeReady
    /\ Commit(set_rm32(Decoded, Self, DecodeWord))
    /\ call' = Append(call, Called("set_rm32", Zero32, DecodeWord, Zero32))
    /\ UnitFrame

DecodeGetRm8 ==
    /\ DecodeReady
    /\ Commit(AfterRead(get_rm8(Decoded, Self)))
    /\ call' = Append(call, Called("get_rm8", Zero32, 0, get_rm8(Decoded, Self).val))
    /\ UnitFrame

DecodeGetRm32 ==
    /\ DecodeReady
    /\ Commit(AfterRead(get_rm32(Decoded, Self)))
    /\ call' = Append(call, Called("get_rm32", Zero32, Zero32, get_rm32(Decoded, Self).val))
    /\ UnitFrame

DecodeSetR8 ==
    /\ DecodeReady
    /\ Commit(set_r8(Decoded, Self, DecodeByte))
    /\ call' = Append(call, Called("set_r8", Zero32, DecodeByte, 0))
    /\ UnitFrame

DecodeSetR32 ==
    /\ DecodeReady
    /\ Commit(set_r32(Decoded, Self, DecodeWord))
    /\ call' = Append(call, Called("set_r32", Zero32, DecodeWord, Zero32))
    /\ UnitFrame

DecodeGetR8 ==
    /\ DecodeReady
    /\ Commit(AfterRead(get_r8(Decoded, Self)))
    /\ call' = Append(call, Called("get_r8", Zero32, 0, get_r8(Decoded, Self).val))
    /\ UnitFrame

DecodeGetR32 ==
    /\ DecodeReady
    /\ Commit(Self)
    /\ call' = Append(call, Called("get_r32", Zero32, Zero32, get_r32(Decoded, Self)))
    /\ UnitFrame

DecodeNext ==
    \/ DecodeParseModrm
    \/ DecodeSetRm8 \/ DecodeSetRm32 \/ DecodeGetRm8 \/ DecodeGetRm32
    \/ DecodeSetR8 \/ DecodeSetR32 \/ DecodeGetR8 \/ DecodeGetR32

DecodeSpec == DecodeInit /\ [][DecodeNext]_vars

(***************************************************************************)
(* Properties.                                                             *)
(***************************************************************************)
\* The opcode at the EIP of emulator s.
OpcodeOf(s) == MemAt(s.memory, AsUsize(s.eip))

\* The opcodes of the instructions executed so far, oldest first (of the
\* last HistLen of them).
Executed == [k \in 1 .. Len(hist) |-> OpcodeOf(hist[Len(hist) + 1 - k])]

IsPrefix(s, t) == Len(s) <= Len(t) /\ s = SubSeq(t, 1, Len(s))

\* The fetched byte has a handler in the table.
HasHandler == InMemory(eip) /\ OpcodeOf(Self) \in DOMAIN instructions

\* The round of the loop has executed one instruction, the one at EIP.
OneInstruction ==
    /\ HasHandler
    /\ hist'[1] = Self
    /\ Len(hist') = IF Len(hist) < HistLen THEN Len(hist) + 1 ELSE HistLen

\* C1 as stated: the run loop stops exactly when (a) EIP is 0 after an
\* instruction has executed, (b) EIP is outside the memory at fetch time, or
\* (c) the fetched byte has no handler; in every other state it executes
\* exactly one more instruction.
C1AsStated ==
    [][halt = "run" =>
        /\ (halt' # "run") <=>
              \/ ~InMemory(eip)
              \/ InMemory(eip) /\ ~HasHandler
              \/ HasHandler /\ eip' = Zero32
        /\ (halt' = "run") => OneInstruction]_vars

\* C1, run-loop termination: from EIP = 0x7C00 the run loop stops exactly
\* when (a) EIP is 0 after an instruction has executed, (b) EIP is outside
\* the memory at fetch time, (c) the fetched byte has no handler, or (d) the
\* handler of the fetched opcode aborts the process (a panic or exit(1));
\* in every other state it executes exactly one more instruction, and once
\* stopped it executes none.
C1RunLoopTermination ==
    [][/\ halt \in {"load", "run"}
       /\ halt = "load" => eip = W(LOAD_ADDRESS) /\ halt' = "run"
       /\ halt = "run" =>
            /\ (halt' # "run") <=>
                  \/ ~InMemory(eip)
                  \/ InMemory(eip) /\ ~HasHandler
                  \/ HasHandler /\ (eip' = Zero32 \/ fault' # "none")
            /\ (halt' = "run") => OneInstruction]_vars

\* A run stopped by its handler: the process has aborted with EIP not 0.
C1Witness ==
    /\ halt = "aborted" /\ fault \in {"panic", "exit"} /\ eip # Zero32
    /\ Len(hist) >= 1 /\ InMemory(hist[1].eip)

S2Opcodes == <<\h6A, \hBB, \h43, \h43, \hC3>>

S2Final ==
    /\ halt = "end_of_program" /\ fault = "none"
    /\ Executed = S2Opcodes
    /\ registers[Ebx] = W(7)
    /\ eip = Zero32
    /\ registers[Esp] = W(LOAD_ADDRESS)

\* C2, scenario S2: with 6A 00 BB 05 00 00 00 43 43 C3 loaded at 0x7C00,
\* EIP = 0x7C00 and ESP = 0x7C00, the run executes PUSH 0; MOV EBX,5;
\* INC EBX; INC EBX; RET and terminates with EBX = 7, EIP = 0 and ESP back
\* at 0x7C00: the instructions executed are the first of these five, the
\* loop has a next instruction until all five have run, and it stops only
\* in that final state.
C2ScenarioS2 ==
    image = ProgS2 =>
        /\ halt = "load" => eip = W(LOAD_ADDRESS) /\ registers[Esp] = W(LOAD_ADDRESS)
        /\ IsPrefix(Executed, S2Opcodes)
        /\ halt = "run" => HasHandler /\ Len(hist) < Len(S2Opcodes)
        /\ halt \notin {"load", "run"} => S2Final

C2Witness == image = ProgS2 /\ S2Final

S3Opcodes(imm) ==
    IF imm = \h2A
    THEN <<\hB8, \h3D, \h74, \h6A, \hC3>>
    ELSE <<\hB8, \h3D, \h74, \h40, \h40, \h40, \h6A, \hC3>>

S3Final(imm) ==
    /\ halt = "end_of_program" /\ fault = "none"
    /\ Executed = S3Opcodes(imm)
    /\ eip = Zero32
    /\ registers[Eax] = IF imm = \h2A THEN W(\h2A) ELSE W(\h2D)

\* C3, scenarios S3 and S4: the program MOV EAX,0x2A; CMP EAX,imm32; JZ +3;
\* INC EAX (three times); PUSH 0; RET loaded at 0x7C00 terminates with
\* EIP = 0; with imm32 = 0x2A, ZF = 1 after the CMP, the INCs are skipped
\* and EAX = 0x2A; with imm32 = 0x2B, ZF = 0 after the CMP, the three INCs
\* run and EAX = 0x2D.
C3ScenariosS3S4 ==
    \A imm \in ScenarioImmediates :
        image = ProgS3(imm) =>
            /\ IsPrefix(Executed, S3Opcodes(imm))
            /\ Len(hist) = 2 => ((eflags \div ZERO_FLAG) % 2 = 1 <=> imm = \h2A)
            /\ halt = "run" => HasHandler /\ Len(hist) < Len(S3Opcodes(imm))
            /\ halt \notin {"load", "run"} => S3Final(imm)

C3Witness == image = ProgS3(\h2B) /\ S3Final(\h2B) /\ (eflags \div ZERO_FLAG) % 2 = 0

S5Opcodes == <<\hE8, \hC3, \h6A, \hC3>>

\* The run of a CALL to the trailing RET, as S5 describes it.
S5Run ==
    /\ IsPrefix(Executed, S5Opcodes)
    /\ Len(hist) = 1 /\ halt = "run" => eip = W(LOAD_ADDRESS + 8)
    /\ Len(hist) = 2 /\ halt = "run" => eip = W(LOAD_ADDRESS + 5)
    /\ halt = "run" => HasHandler /\ Len(hist) < Len(S5Opcodes)
    /\ halt \notin {"load", "run"} =>
          /\ halt = "end_of_program" /\ fault = "none"
          /\ Executed = S5Opcodes
          /\ eip = Zero32
          /\ registers[Esp] = W(LOAD_ADDRESS)

\* The end of the run of E8 05 00 00 00 6A 00 C3 C3.
S5Stopped ==
    /\ halt = "not_implemented" /\ fault = "none"
    /\ Executed = <<\hE8>>
    /\ eip = W(LOAD_ADDRESS + 10)
    /\ registers[Esp] = W(LOAD_ADDRESS - 4)
    /\ [i \in 0 .. 3 |-> MemAt(memory, LOAD_ADDRESS - 4 + i)] = [i \in 0 .. 3 |-> LE32(W(LOAD_ADDRESS + 5))[i + 1]]

\* C4 as stated: with E8 05 00 00 00 6A 00 C3 C3 at 0x7C00 and ESP = 0x7C00,
\* the CALL goes to the trailing RET, which returns to 0x7C05, and PUSH 0
\* and RET end the run with EIP = 0 and ESP = 0x7C00.
C4AsStated == image = ProgS5 => S5Run

\* C4, scenario S5: with E8 05 00 00 00 6A 00 C3 C3 at 0x7C00 and
\* ESP = 0x7C00, the CALL pushes 0x7C05 and transfers control to 0x7C0A
\* (its EIP + 5 + 5), past the trailing RET at 0x7C08; the byte there is 0,
\* which has no handler, and the run stops at EIP = 0x7C0A with
\* ESP = 0x7BFC.  With the displacement 3 (E8 03 00 00 00 6A 00 C3 C3) the
\* CALL transfers control to the trailing RET, that RET returns to the
\* pushed 0x7C05, and PUSH 0 and RET end the run with EIP = 0 and the stack
\* balanced (ESP = 0x7C00).
C4ScenarioS5 ==
    /\ image = ProgS5 =>
          /\ IsPrefix(Executed, <<\hE8>>)
          /\ halt = "run" /\ Len(hist) = 0 => HasHandler
          /\ halt = "run" /\ Len(hist) = 1 => eip = W(LOAD_ADDRESS + 10) /\ ~HasHandler
          /\ halt \notin {"load", "run"} => S5Stopped
    /\ image = ProgS5Reaching => S5Run

C4Witness == image = ProgS5 /\ S5Stopped

\* The u32 stored least significant byte first at address a of mem.
WordAt(mem, a) ==
    U32(MemAt(mem, a + 2) + 256 * MemAt(mem, a + 3),
        MemAt(mem, a) + 256 * MemAt(mem, a + 1))

\* The target of the CALL rel32 at the EIP of s: EIP + 5 + rel32 mod 2^32.
CallTarget(s) ==
    wrapping_add(wrapping_add(s.eip, W(5)), WordAt(s.memory, AsUsize(s.eip) + 1))

\* Emulator s is at a CALL rel32 whose target is in memory and holds RET.
CallToRet(s) ==
    /\ OpcodeOf(s) = \hE8
    /\ InMemory(CallTarget(s))
    /\ MemAt(s.memory, AsUsize(CallTarget(s))) = \hC3

\* The four bytes below w are bytes of the memory.
StackRoom(w) == ~TooBig(w) /\ AsUsize(w) >= 4 /\ AsUsize(w) <= MEMORY_SIZE

\* The four bytes below the ESP of s are in memory, the RET not among them.
StackClear(s) ==
    /\ StackRoom(s.registers[Esp])
    /\ AsUsize(CallTarget(s)) \notin
          (AsUsize(s.registers[Esp]) - 4) .. (AsUsize(s.registers[Esp]) - 1)

\* What CALL and then RET leave, s being the emulator before the CALL.
Returned(s) ==
    /\ fault = "none"
    /\ registers = s.registers
    /\ eflags = s.eflags
    /\ eip = wrapping_add(s.eip, W(5))

\* The CALL of s has run and the RET it went to is the next instruction.
AtRet(s) ==
    /\ fault = "none" /\ halt = "run"
    /\ eip = CallTarget(s)
    /\ OpcodeOf(Self) = \hC3

\* C5 as stated: for every machine state in which a CALL rel32 at A targets
\* an in-bounds address holding RET, the CALL and then the RET leave the
\* eight registers and EFLAGS as before the CALL, and EIP = A + 5.
C5AsStated ==
    /\ Len(hist) >= 1 /\ CallToRet(hist[1]) => AtRet(hist[1])
    /\ Len(hist) >= 2 /\ CallToRet(hist[2]) => Returned(hist[2])

\* C5, CALL/RET symmetry: for every machine state in which a CALL rel32 at A
\* targets an in-bounds address holding RET (0xC3), and in which
\* 4 <= ESP <= memory size and the RET is not one of the four bytes below
\* ESP, executing the CALL and then the RET leaves all eight registers
\* (ESP included) and every EFLAGS bit as before the CALL, and EIP = A + 5.
C5CallRetSymmetry ==
    /\ Len(hist) >= 1 /\ CallToRet(hist[1]) /\ StackClear(hist[1]) => AtRet(hist[1])
    /\ Len(hist) >= 2 /\ CallToRet(hist[2]) /\ StackClear(hist[2]) => Returned(hist[2])

\* A CALL and its RET have run, with flags set and EBX loaded before them.
C5Witness ==
    /\ Len(hist) >= 2 /\ CallToRet(hist[2]) /\ StackClear(hist[2])
    /\ OpcodeOf(hist[1]) = \hC3
    /\ hist[2].eflags # 0 /\ hist[2].registers[Ebx] # Zero32
    /\ Returned(hist[2])

\* The ESP before the push32 of the log.
PushedAt == call[1].before.registers[Esp]

\* What push32(v) and then pop32() leave.
RoundTrip ==
    /\ fault = "none"
    /\ Len(call) = 2 =>
          /\ call[2].op = "pop32"
          /\ call[2].ret = call[1].value
          /\ registers[Esp] = PushedAt

\* C6 as stated: from an arbitrary ESP and for every 32-bit v, push32(v)
\* followed by pop32() returns v and leaves ESP at its starting value.
C6AsStated == Len(call) >= 1 /\ call[1].op = "push32" => RoundTrip

\* C6, stack round-trip: from every ESP with 4 <= ESP <= memory size and for
\* every 32-bit v, push32(v) followed by pop32() returns v and leaves ESP
\* equal to its starting value.
C6StackRoundTrip ==
    Len(call) >= 1 /\ call[1].op = "push32" /\ StackRoom(PushedAt) => RoundTrip

\* A push at the top of the memory and its pop.
C6Witness ==
    /\ Len(call) = 2 /\ call[2].op = "pop32" /\ fault = "none"
    /\ PushedAt = W(MEMORY_SIZE)
    /\ call[1].value = MaxU32
    /\ call[2].ret = MaxU32

\* The fields of the ModR/M byte after the opcode of s.
ModOf(s) == MemAt(s.memory, AsUsize(s.eip) + 1) \div 64

RegOf(s) == (MemAt(s.memory, AsUsize(s.eip) + 1) \div 8) % 8

RmOf(s) == MemAt(s.memory, AsUsize(s.eip) + 1) % 8

\* The byte b as a sign-extended 32-bit word.
Extended(b) == IF b < 128 THEN U32(0, b) ELSE U32(Half - 1, Half - 256 + b)

\* <<v1, v2>> of the subtraction v1 - v2 that the instruction at the EIP of
\* s computes: CMP EAX,imm32, CMP r32,r/m32 (a register, or the memory a
\* register points into), 0x83 /7 CMP and 0x83 /5 SUB on a register; <<>>
\* for every other instruction.
SubOperands(s) ==
    CASE OpcodeOf(s) = \h3D ->
            <<s.registers[Eax], WordAt(s.memory, AsUsize(s.eip) + 1)>>
      [] OpcodeOf(s) = \h3B /\ ModOf(s) = 3 ->
            <<s.registers[RegOf(s)], s.registers[RmOf(s)]>>
      [] OpcodeOf(s) = \h3B /\ ModOf(s) = 0 /\ RmOf(s) \notin {4, 5}
           /\ ~TooBig(s.registers[RmOf(s)])
           /\ AsUsize(s.registers[RmOf(s)]) < MEMORY_SIZE - 3 ->
            <<s.registers[RegOf(s)],
              WordAt(s.memory, AsUsize(s.registers[RmOf(s)]))>>
      [] OpcodeOf(s) = \h83 /\ ModOf(s) = 3 /\ RegOf(s) \in {5, 7} ->
            <<s.registers[RmOf(s)], Extended(MemAt(s.memory, AsUsize(s.eip) + 2))>>
      [] OTHER -> <<>>

Bit31(w) == w.hi \div (2 ^ 15)

\* a < b as unsigned 32-bit numbers.
Below(a, b) == a.hi < b.hi \/ (a.hi = b.hi /\ a.lo < b.lo)

Flag(f) == (eflags \div f) % 2

\* The flags of v1 - v2.
SubFlags(v1, v2) ==
    /\ Flag(CARRY_FLAG) = 1 <=> Below(v1, v2)
    /\ Flag(ZERO_FLAG) = 1 <=> v1 = v2
    /\ Flag(SIGN_FLAG) = Bit31(wrapping_sub(v1, v2))
    /\ Flag(OVERFLOW_FLAG) = 1 <=>
          Bit31(v1) # Bit31(v2) /\ Bit31(v1) # Bit31(wrapping_sub(v1, v2))

\* C7, subtraction flags: after CMP EAX,imm32, CMP r32,r/m32, 0x83 /7 CMP or
\* 0x83 /5 SUB computing v1 - v2, CF = 1 iff v1 < v2 as unsigned, ZF = 1 iff
\* v1 = v2, SF = bit 31 of (v1 - v2) mod 2^32, and OF = 1 iff
\* bit31(v1) # bit31(v2) and bit31(v1) # bit31(result).
C7SubtractionFlags ==
    Len(hist) >= 1 /\ SubOperands(hist[1]) # <<>> =>
        /\ fault = "none"
        /\ SubFlags(SubOperands(hist[1])[1], SubOperands(hist[1])[2])

\* 0x7FFFFFFF - 0xFFFFFFFF has been computed: CF, SF and OF are set, ZF is not.
C7Witness ==
    /\ Len(hist) >= 1
    /\ SubOperands(hist[1]) = <<MaxI32, MaxU32>>
    /\ OpcodeOf(hist[1]) = \h3B
    /\ eflags = CARRY_FLAG + SIGN_FLAG + OVERFLOW_FLAG

\* The condition of the conditional jump with opcode op, on the flags of s.
JccCondition(op, s) ==
    LET bit(f) == (s.eflags \div f) % 2 = 1
    IN  CASE op = \h70 -> bit(OVERFLOW_FLAG)
          [] op = \h71 -> ~bit(OVERFLOW_FLAG)
          [] op = \h72 -> bit(CARRY_FLAG)
          [] op = \h73 -> ~bit(CARRY_FLAG)
          [] op = \h74 -> bit(ZERO_FLAG)
          [] op = \h75 -> ~bit(ZERO_FLAG)
          [] op = \h78 -> bit(SIGN_FLAG)
          [] op = \h79 -> ~bit(SIGN_FLAG)
          [] op = \h7C -> bit(SIGN_FLAG) # bit(OVERFLOW_FLAG)
          [] op = \h7E -> bit(ZERO_FLAG) \/ (bit(SIGN_FLAG) # bit(OVERFLOW_FLAG))

\* The EIP after the conditional jump at the EIP of s.
JccTarget(s) ==
    IF JccCondition(OpcodeOf(s), s)
    THEN wrapping_add(wrapping_add(s.eip, Extended(MemAt(s.memory, AsUsize(s.eip) + 1))),
                      W(2))
    ELSE wrapping_add(s.eip, W(2))

\* C8, Jcc correctness: for each of the opcodes 0x70, 0x71, 0x72, 0x73, 0x74,
\* 0x75, 0x78, 0x79, 0x7C (SF # OF), 0x7E (ZF = 1 or SF # OF), every flag
\* state and every signed 8-bit displacement d, negative ones included, the
\* new EIP is (EIP + d + 2) mod 2^32 when the condition holds and EIP + 2
\* otherwise, and no register, flag or memory byte changes.
C8JccCorrectness ==
    Len(hist) >= 1 /\ OpcodeOf(hist[1]) \in JccOpcodes =>
        /\ fault = "none"
        /\ eip = JccTarget(hist[1])
        /\ registers = hist[1].registers
        /\ eflags = hist[1].eflags
        /\ memory = hist[1].memory

\* The byte of the 8-bit register r8 in the registers regs.
ByteOfReg(regs, r8) ==
    IF r8 < 4 THEN regs[r8].lo % 256 ELSE (regs[r8 - 4].lo \div 256) % 256

\* The registers regs after byte b is written to the 8-bit register r8.
Write8(regs, r8, b) ==
    IF r8 < 4
    THEN [regs EXCEPT ![r8] = U32(@.hi, (@.lo \div 256) * 256 + b)]
    ELSE [regs EXCEPT ![r8 - 4] = U32(@.hi, ((@.lo \div Half) * Half) + (b * 256) + (@.lo % 256))]

\* <<r8, b>> of the 8-bit register write of the instruction at the EIP of
\* s: MOV r8,imm8, and MOV r/m8,r8 and MOV r8,r/m8 between registers; <<>>
\* for every other instruction.
ByteWrite(s) ==
    CASE OpcodeOf(s) \in \hB0 .. \hB7 ->
            <<OpcodeOf(s) - \hB0, MemAt(s.memory, AsUsize(s.eip) + 1)>>
      [] OpcodeOf(s) = \h88 /\ ModOf(s) = 3 ->
            <<RmOf(s), ByteOfReg(s.registers, RegOf(s))>>
      [] OpcodeOf(s) = \h8A /\ ModOf(s) = 3 ->
            <<RegOf(s), ByteOfReg(s.registers, RmOf(s))>>
      [] OTHER -> <<>>

\* C9, byte preservation on partial register writes: an 8-bit write with
\* index 0..3 sets bits 0..7 of register 0..3 to b and leaves bits 8..31
\* unchanged; one with index 4..7 sets bits 8..15 of register index - 4 to
\* b and leaves bits 0..7 and 16..31 unchanged; no other register changes.
\* This holds for MOV r8,imm8 and for 8-bit ModR/M register operands.
C9BytePreservation ==
    Len(hist) >= 1 /\ ByteWrite(hist[1]) # <<>> =>
        /\ fault = "none"
        /\ registers = Write8(hist[1].registers, ByteWrite(hist[1])[1],
                              ByteWrite(hist[1])[2])

\* MOV DH,BL has run on EDX = 0x99AABBCC and EBX = 0xDDEEFF00.
C9Witness ==
    /\ Len(hist) >= 1
    /\ OpcodeOf(hist[1]) = \h8A /\ ByteWrite(hist[1]) = <<6, 0>>
    /\ hist[1].registers[Edx] = U32(\h99AA, \hBBCC)
    /\ registers[Edx] = U32(\h99AA, \h00CC)

\* The address and the value of the set_memory32 of the log.
WrittenAt == AsUsize(call[1].address)

\* C10, little-endian round trip: for every 32-bit v and every address a
\* with a..a+3 inside memory, a 32-bit write of v at a followed by a 32-bit
\* read at a yields v; the write stores byte i of v (least significant
\* first) at a+i and changes no byte outside a..a+3.
C10LittleEndianRoundTrip ==
    /\ Len(call) >= 1 /\ call[1].op = "set_memory32"
    /\ ~TooBig(call[1].address) /\ WrittenAt + 3 < MEMORY_SIZE
    => /\ fault = "none"
       /\ \A i \in 0 .. 3 : MemAt(memory, WrittenAt + i) = LE32(call[1].value)[i + 1]
       /\ \A x \in (DOMAIN memory \cup DOMAIN call[1].before.memory)
                      \ (WrittenAt .. (WrittenAt + 3)) :
             MemAt(memory, x) = MemAt(call[1].before.memory, x)
       /\ Len(call) = 2 =>
             /\ call[2].op = "get_memory32"
             /\ call[2].ret = call[1].value

\* 0x12345678 has been written over three bytes of the image and read back.
C10Witness ==
    /\ Len(call) = 2 /\ call[2].op = "get_memory32" /\ fault = "none"
    /\ call[1].address = W(LOAD_ADDRESS + 16)
    /\ call[1].value = U32(\h1234, \h5678)
    /\ call[2].ret = U32(\h1234, \h5678)
    /\ MemAt(memory, LOAD_ADDRESS + 16) = \h78
    /\ MemAt(memory, LOAD_ADDRESS + 15) = \hBB

\* C11, fatal errors are termination conditions: for every fatal kind
\* (unknown top-level opcode, unimplemented 0x83 /n or 0xFF /n, ModR/M
\* requiring SIB, memory access out of bounds) the loop ends and the final
\* dump of the eight registers and EIP is produced, reflecting the state at
\* the point of failure.
C11FatalErrorsDump ==
    halt \in {"not_implemented", "aborted"} => dump = <<registers, eip>>

\* The instruction at the EIP of s decodes a ModR/M byte that asks for a SIB
\* byte: mod in {0, 1, 2} and rm = 4.
NeedsSib(s) ==
    /\ OpcodeOf(s) \in ModRMOpcodes
    /\ ModOf(s) \in {0, 1, 2}
    /\ RmOf(s) = 4

\* C12, SIB rejection: for every ModR/M-using instruction (0x01, 0x3B, 0x83,
\* 0x88, 0x89, 0x8A, 0x8B, 0xC7, 0xFF) whose ModR/M byte has mod in {0,1,2}
\* and rm = 4, execution is a hard error and no general-purpose register,
\* flag or memory byte is written by that instruction.
C12SibRejection ==
    Len(hist) >= 1 /\ NeedsSib(hist[1]) =>
        /\ fault # "none" /\ halt = "aborted"
        /\ registers = hist[1].registers
        /\ eflags = hist[1].eflags
        /\ memory = hist[1].memory

\* MOV [ESP+disp8],imm32 has been rejected with the registers loaded.
C12Witness ==
    /\ Len(hist) >= 1 /\ NeedsSib(hist[1])
    /\ OpcodeOf(hist[1]) = \hC7 /\ ModOf(hist[1]) = 1
    /\ fault = "panic"
    /\ registers[Ebx] = U32(\hDDEE, \hFF00)

\* The opcodes of the dispatch table.
TableOpcodes ==
    {\h01} \cup (\h3B .. \h3D) \cup (\h40 .. \h47) \cup (\h50 .. \h5F)
    \cup {\h68, \h6A} \cup (\h70 .. \h75) \cup {\h78, \h79, \h7C, \h7E, \h83}
    \cup (\h88 .. \h8B) \cup (\hB0 .. \hBF)
    \cup {\hC3, \hC7, \hC9, \hCD, \hE8, \hE9, \hEB, \hEC, \hEE, \hFF}

\* C13, unknown opcode: for every opcode byte that is not in the dispatch
\* table (0x76, 0x77, 0x7D, 0x7F and 0x00 among them), fetching it stops
\* the run with registers, flags, memory and EIP unchanged; the table
\* contains exactly the opcodes 0x01, 0x3B-0x3D, 0x40-0x47, 0x50-0x5F,
\* 0x68, 0x6A, 0x70-0x75, 0x78, 0x79, 0x7C, 0x7E, 0x83, 0x88-0x8B,
\* 0xB0-0xBF, 0xC3, 0xC7, 0xC9, 0xCD, 0xE8, 0xE9, 0xEB, 0xEC, 0xEE, 0xFF
\* and never changes after construction.
C13UnknownOpcode ==
    [][/\ instructions' = instructions
       /\ DOMAIN instructions = TableOpcodes
       /\ halt = "run" /\ InMemory(eip) /\ OpcodeOf(Self) \notin TableOpcodes =>
            /\ halt' = "not_implemented"
            /\ fault' = "none"
            /\ UNCHANGED <<registers, eflags, memory, eip>>]_vars

\* The run has stopped on the byte 0x77 at 0x7C00, as it started.
C13Witness ==
    /\ halt = "not_implemented"
    /\ OpcodeOf(Self) = \h77
    /\ eip = W(LOAD_ADDRESS)
    /\ registers[Esp] = W(LOAD_ADDRESS)
    /\ dump = <<registers, eip>>

\* The byte a read of stdin yields: 0 at end of input and on a failed read.
ByteRead(in) == IF in # <<>> /\ Head(in) \in U8 THEN Head(in) ELSE 0

\* The rest of stdin after one read.
RestOf(in) == IF in = <<>> THEN in ELSE Tail(in)

\* The last instruction was IN AL,DX or OUT DX,AL, and port is the low 16
\* bits of EDX it ran with.
PortStep(op, wired) ==
    /\ Len(hist) >= 1
    /\ OpcodeOf(hist[1]) = op
    /\ (hist[1].registers[Edx].lo = COM1) = wired

\* Everything but the registers, stdin and stdout is as before the last
\* instruction, and EIP is one further.
PortFrame ==
    /\ fault = "none"
    /\ eip = wrapping_add(hist[1].eip, W(1))
    /\ eflags = hist[1].eflags
    /\ memory = hist[1].memory

\* OUT DX,AL: on COM1 exactly the byte in AL is emitted, on any other port
\* nothing; nothing else changes.
OutEffect ==
    /\ PortStep(\hEE, TRUE) =>
          /\ PortFrame
          /\ registers = hist[1].registers
          /\ stdin = hist[1].stdin
          /\ stdout = Append(hist[1].stdout, ByteOfReg(hist[1].registers, Al))
    /\ PortStep(\hEE, FALSE) =>
          /\ PortFrame
          /\ registers = hist[1].registers
          /\ stdin = hist[1].stdin
          /\ stdout = hist[1].stdout

\* IN AL,DX on COM1: AL is the byte read, 0 at end of input or on error;
\* bits 8..31 of EAX and every other register are preserved.
InWiredEffect ==
    PortStep(\hEC, TRUE) =>
        /\ PortFrame
        /\ registers = Write8(hist[1].registers, Al, ByteRead(hist[1].stdin))
        /\ stdin = RestOf(hist[1].stdin)
        /\ stdout = hist[1].stdout

\* C14 as the specification states it, unwired ports are a no-op: when the
\* low 16 bits of EDX are not 0x03F8, IN AL,DX and OUT DX,AL change nothing
\* except EIP += 1, AL included; when they are 0x03F8, OUT emits the byte in
\* AL and IN sets AL to the byte read, preserving bits 8..31 of EAX.
C14AsStated ==
    /\ OutEffect
    /\ InWiredEffect
    /\ PortStep(\hEC, FALSE) =>
          /\ PortFrame
          /\ registers = hist[1].registers
          /\ stdin = hist[1].stdin
          /\ stdout = hist[1].stdout

\* C14, port I/O: OUT DX,AL emits the byte in AL on port 0x03F8 and does
\* nothing on any other port; IN AL,DX sets AL to the byte read on port
\* 0x03F8 (0 at end of input or on error) and to 0 on any other port, reads
\* nothing from stdin on an unwired port, and preserves bits 8..31 of EAX;
\* both change nothing else except EIP += 1.
C14PortIO ==
    /\ OutEffect
    /\ InWiredEffect
    /\ PortStep(\hEC, FALSE) =>
          /\ PortFrame
          /\ registers = Write8(hist[1].registers, Al, 0)
          /\ stdin = hist[1].stdin
          /\ stdout = hist[1].stdout

\* IN AL,DX has run on port 0x03F9 with EAX = 0x11223344
\* and input waiting: AL is 0, the input is still waiting.
C14Witness ==
    /\ PortStep(\hEC, FALSE)
    /\ hist[1].registers[Edx] = W(COM1 + 1)
    /\ hist[1].registers[Eax] = U32(\h1122, \h3344)
    /\ registers[Eax] = U32(\h1122, \h3300)
    /\ stdin = <<72, 105>>

\* The second digit of the SGR colour 30..37 of BL & 7.
ColorDigit(bl) == <<0, 4, 2, 6, 1, 5, 3, 7>>[(bl % 8) + 1]

\* The bytes of the character with code point al: itself below 0x80, its
\* two-byte UTF-8 encoding from 0x80.
Character(al) ==
    IF al < \h80 THEN <<al>> ELSE <<\hC0 + (al \div \h40), \h80 + (al % \h40)>>

\* ESC '[' bright ';' color 'm' ch ESC '[0m'
Sgr(bl, al) ==
    <<\h1B, \h5B, \h30 + ((bl \div 8) % 2), \h3B, \h33, \h30 + ColorDigit(bl), \h6D>>
        \o Character(al) \o <<\h1B, \h5B, \h30, \h6D>>

\* C15, BIOS teletype: INT 0x10 with AH = 0x0E emits ESC '[' bright ';'
\* color 'm' ch ESC '[0m', where ch is the character in AL, color =
\* [30,34,32,36,31,35,33,37][BL & 7] and bright = 1 if bit 3 of BL is set
\* else 0; INT 0x10 with any other AH, and INT with any other number, emit
\* no character.  In every case execution continues at EIP + 2 with all
\* registers and flags (and memory and the input) unchanged.
C15BiosTeletype ==
    Len(hist) >= 1 /\ OpcodeOf(hist[1]) = \hCD =>
        LET s == hist[1]
            n == MemAt(s.memory, AsUsize(s.eip) + 1)
            ah == ByteOfReg(s.registers, Ah)
            al == ByteOfReg(s.registers, Al)
            bl == ByteOfReg(s.registers, Bl)
        IN  /\ fault = "none"
            /\ eip = wrapping_add(s.eip, W(2))
            /\ registers = s.registers
            /\ eflags = s.eflags
            /\ memory = s.memory
            /\ stdin = s.stdin
            /\ stdout = IF n = \h10 /\ ah = \h0E THEN s.stdout \o Sgr(bl, al)
                        ELSE s.stdout

\* INT 0x10 has run with AH = 0x0E, AL = 'H', BL = 0x0F and has emitted
\* ESC[1;37mH ESC[0m.
C15Witness ==
    /\ Len(hist) >= 1
    /\ OpcodeOf(hist[1]) = \hCD
    /\ ByteOfReg(hist[1].registers, Bl) = \h0F
    /\ stdout = <<27, 91, 49, 59, 51, 55, 109, 72, 27, 91, 48, 109>>
    /\ eip = W(LOAD_ADDRESS + 8)

\* The registers, EFLAGS and EIP of a machine that has executed nothing.
Untouched ==
    /\ eip = W(LOAD_ADDRESS)
    /\ registers[Esp] = W(LOAD_ADDRESS)
    /\ \A r \in (0 .. 7) \ {Esp} : registers[r] = W(0)
    /\ eflags = 0

\* C16, initial state and loader frame: the machine starts with EIP =
\* 0x7C00, ESP = 0x7C00, the other seven registers 0, EFLAGS 0 and all
\* memory 0; loading an image of n bytes copies its leading min(n, 512)
\* bytes to the addresses from 0x7C00 and changes no memory byte outside
\* [0x7C00, 0x7E00), no register and not EIP.
C16InitialStateAndLoader ==
    /\ halt = "load" =>
          /\ Untouched
          /\ \A a \in DOMAIN memory : memory[a] = 0
    /\ halt # "load" /\ hist = <<>> =>
          /\ Untouched
          /\ \A a \in DOMAIN memory :
                a \in LOAD_ADDRESS .. (LOAD_ADDRESS + SECTOR_SIZE - 1)
          /\ \A k \in 0 .. (SECTOR_SIZE - 1) :
                MemAt(memory, LOAD_ADDRESS + k) =
                    IF k < Len(image) THEN image[k + 1] ELSE 0

\* An image of 513 bytes has been loaded: its byte 512 is at 0x7DFF, its
\* byte 513 is nowhere.
C16Witness ==
    /\ halt = "run"
    /\ hist = <<>>
    /\ Len(image) = SECTOR_SIZE + 1
    /\ MemAt(memory, LOAD_ADDRESS + SECTOR_SIZE - 1) = \h90
    /\ MemAt(memory, LOAD_ADDRESS + SECTOR_SIZE) = 0

\* C17, LEAVE (0xC9): for every state with EBP pointing at 4 in-bounds
\* bytes, after LEAVE the new EBP equals the 32-bit little-endian value
\* stored at the old EBP, the new ESP equals old EBP + 4 (ESP := EBP
\* followed by EBP := pop32()), and EIP advances by 1; the value at the
\* old ESP plays no role.
C17Leave ==
    Len(hist) >= 1 /\ OpcodeOf(hist[1]) = \hC9
        /\ ~TooBig(hist[1].registers[Ebp])
        /\ AsUsize(hist[1].registers[Ebp]) < MEMORY_SIZE - 3 =>
            LET s == hist[1]
                ebp == s.registers[Ebp]
            IN  /\ fault = "none"
                /\ registers[Ebp] = WordAt(s.memory, AsUsize(ebp))
                /\ registers[Esp] = wrapping_add(ebp, W(4))
                /\ eip = wrapping_add(s.eip, W(1))

\* EIP + d + n mod 2^32 for the transfer at the EIP of s, d being its
\* sign-extended rel8 (n = 2) or its rel32 (n = 5).
TransferTarget(s, n) ==
    LET d == IF n = 2 THEN Extended(MemAt(s.memory, AsUsize(s.eip) + 1))
             ELSE WordAt(s.memory, AsUsize(s.eip) + 1)
    IN  wrapping_add(wrapping_add(s.eip, d), W(n))

\* C18, PC-relative transfers wrap on 32 bits: for every EIP and every
\* signed displacement d, negative ones included (-1, -2 for rel8, -1..-5
\* for rel32), JMP rel8 sets EIP := (EIP + d + 2) mod 2^32, JMP rel32 sets
\* EIP := (EIP + d + 5) mod 2^32, and CALL rel32 (with room on the stack)
\* pushes EIP + 5 and sets EIP := (EIP + d + 5) mod 2^32, without any
\* arithmetic-overflow failure.
C18RelativeTransfers ==
    /\ Len(hist) >= 1 /\ OpcodeOf(hist[1]) = \hEB =>
          /\ fault = "none"
          /\ eip = TransferTarget(hist[1], 2)
    /\ Len(hist) >= 1 /\ OpcodeOf(hist[1]) = \hE9 =>
          /\ fault = "none"
          /\ eip = TransferTarget(hist[1], 5)
    /\ Len(hist) >= 1 /\ OpcodeOf(hist[1]) = \hE8
          /\ StackRoom(hist[1].registers[Esp]) =>
          /\ fault = "none"
          /\ eip = TransferTarget(hist[1], 5)
          /\ registers[Esp] = wrapping_sub(hist[1].registers[Esp], W(4))
          /\ WordAt(memory, AsUsize(registers[Esp])) = wrapping_add(hist[1].eip, W(5))

\* The memory mem with the word w stored little-endian at address a.
StoreWord(mem, a, w) ==
    [k \in a .. (a + 3) |->
        CASE k = a -> w.lo % 256
          [] k = a + 1 -> w.lo \div 256
          [] k = a + 2 -> w.hi % 256
          [] k = a + 3 -> w.hi \div 256] @@ mem

\* The instruction at the EIP of s has a register for r/m32 (mod = 3).
RegisterForm(s) == ModOf(s) = 3

\* The instruction at the EIP of s has the in-bounds dword [reg] for r/m32
\* (mod = 0, rm neither 4 nor 5).
MemoryForm(s) ==
    /\ ModOf(s) = 0
    /\ RmOf(s) \notin {4, 5}
    /\ ~TooBig(s.registers[RmOf(s)])
    /\ AsUsize(s.registers[RmOf(s)]) < MEMORY_SIZE - 3

\* The value of the r/m32 operand of the instruction at the EIP of s.
Rm32Of(s) ==
    IF RegisterForm(s) THEN s.registers[RmOf(s)]
    ELSE WordAt(s.memory, AsUsize(s.registers[RmOf(s)]))

\* The r/m32 operand of the instruction at the EIP of s has become w, and
\* nothing else has changed but EIP, which is past the two bytes.
Rm32Becomes(s, w) ==
    /\ fault = "none"
    /\ eip = wrapping_add(s.eip, W(2))
    /\ eflags = s.eflags
    /\ IF RegisterForm(s)
       THEN /\ registers = [s.registers EXCEPT ![RmOf(s)] = w]
            /\ memory = s.memory
       ELSE /\ registers = s.registers
            /\ \A a \in DOMAIN memory \cup DOMAIN s.memory :
                  MemAt(memory, a) =
                      MemAt(StoreWord(s.memory, AsUsize(s.registers[RmOf(s)]), w), a)

\* C19, ADD r/m32,r32 (0x01) is modular: for all 32-bit operand values,
\* pairs whose sum is >= 2^32 included, the destination r/m32 becomes
\* (rm32 + r32) mod 2^32, the instruction completes without an overflow
\* failure, EIP advances past the opcode and ModR/M bytes, and EFLAGS is
\* unchanged.
C19AddModular ==
    Len(hist) >= 1 /\ OpcodeOf(hist[1]) = \h01
        /\ (RegisterForm(hist[1]) \/ MemoryForm(hist[1])) =>
            Rm32Becomes(hist[1],
                        wrapping_add(Rm32Of(hist[1]), hist[1].registers[RegOf(hist[1])]))

\* C20, INC r32 (0x40..0x47) and INC r/m32 (0xFF /0) are modular: the
\* selected operand (register opcode - 0x40 for the short form) becomes
\* (value + 1) mod 2^32 for every value, 0xFFFFFFFF becoming 0; no other
\* register and no flag changes; the short form advances EIP by 1 (the
\* ModR/M form by 2).
C20IncModular ==
    /\ Len(hist) >= 1 /\ OpcodeOf(hist[1]) \in \h40 .. \h47 =>
          /\ fault = "none"
          /\ registers = [hist[1].registers EXCEPT
                             ![OpcodeOf(hist[1]) - \h40] = wrapping_add(@, W(1))]
          /\ eflags = hist[1].eflags
          /\ memory = hist[1].memory
          /\ eip = wrapping_add(hist[1].eip, W(1))
    /\ Len(hist) >= 1 /\ OpcodeOf(hist[1]) = \hFF /\ RegOf(hist[1]) = 0
          /\ (RegisterForm(hist[1]) \/ MemoryForm(hist[1])) =>
          Rm32Becomes(hist[1], wrapping_add(Rm32Of(hist[1]), W(1)))

\* The instruction at the EIP of s is one of the compares 0x3B, 0x3C, 0x3D,
\* 0x83 /7, or the subtraction 0x83 /5.
WritesFlags(s) ==
    \/ OpcodeOf(s) \in {\h3B, \h3C, \h3D}
    \/ OpcodeOf(s) = \h83 /\ RegOf(s) \in {5, 7}

\* C21, EFLAGS frame: along every execution EFLAGS changes only in a step
\* that executes 0x3B, 0x3C, 0x3D, 0x83 /7 or 0x83 /5; every other
\* instruction leaves all of CF, ZF, SF, OF unchanged, and no step ever sets
\* an EFLAGS bit other than these four.
C21EflagsFrame ==
    [][/\ eflags' # eflags => halt = "run" /\ InMemory(eip) /\ WritesFlags(Self)
       /\ eflags' \in 0 .. (CARRY_FLAG + ZERO_FLAG + SIGN_FLAG + OVERFLOW_FLAG)]_vars

\* A CMP EAX,imm32 has set flags, and the MOV and the ADD r/m32,r32 after it
\* have left them as they were.
C21Witness ==
    /\ Len(hist) >= 3
    /\ OpcodeOf(hist[3]) = \h3D
    /\ hist[3].eflags = 0
    /\ hist[2].eflags = ZERO_FLAG
    /\ OpcodeOf(hist[1]) = \h01
    /\ fault = "none"
    /\ eflags = hist[2].eflags

\* The r/m32 operand of the instruction at the EIP of s holds w, and no
\* other register and no other memory byte differs from s.
OnlyRm32Written(s, w) ==
    IF RegisterForm(s)
    THEN /\ registers = [s.registers EXCEPT ![RmOf(s)] = w]
         /\ memory = s.memory
    ELSE /\ registers = s.registers
         /\ \A a \in DOMAIN memory \cup DOMAIN s.memory :
               MemAt(memory, a) =
                   MemAt(StoreWord(s.memory, AsUsize(s.registers[RmOf(s)]), w), a)

\* The sign-extended imm8 of the 0x83 instruction at the EIP of s, whose
\* ModR/M has neither SIB nor displacement.
Imm8Of(s) == Extended(MemAt(s.memory, AsUsize(s.eip) + 2))

\* The last instruction was 0x83 /n on a register or an in-bounds [reg].
Group83Step(ns) ==
    /\ Len(hist) >= 1
    /\ OpcodeOf(hist[1]) = \h83
    /\ RegOf(hist[1]) \in ns
    /\ RegisterForm(hist[1]) \/ MemoryForm(hist[1])

\* C22, group 0x83 dispatch: after decoding ModR/M, /0 sets rm32 := (rm32 +
\* sx(imm8)) mod 2^32 with flags unchanged, /5 sets rm32 := (rm32 -
\* sx(imm8)) mod 2^32 and sets the flags of that subtraction, /7 sets the
\* flags /5 sets for the same operands but writes neither register nor
\* memory; in all three EIP ends one byte past the imm8 that follows the
\* ModR/M bytes; any other /n is fatal and writes nothing.
C22Group83Dispatch ==
    /\ Group83Step({0}) =>
          /\ fault = "none"
          /\ OnlyRm32Written(hist[1], wrapping_add(Rm32Of(hist[1]), Imm8Of(hist[1])))
          /\ eflags = hist[1].eflags
          /\ eip = wrapping_add(hist[1].eip, W(3))
    /\ Group83Step({5}) =>
          /\ fault = "none"
          /\ OnlyRm32Written(hist[1], wrapping_sub(Rm32Of(hist[1]), Imm8Of(hist[1])))
          /\ SubFlags(Rm32Of(hist[1]), Imm8Of(hist[1]))
          /\ eip = wrapping_add(hist[1].eip, W(3))
    /\ Group83Step({7}) =>
          /\ fault = "none"
          /\ registers = hist[1].registers
          /\ memory = hist[1].memory
          /\ SubFlags(Rm32Of(hist[1]), Imm8Of(hist[1]))
          /\ eip = wrapping_add(hist[1].eip, W(3))
    /\ Group83Step({1, 2, 3, 4, 6}) =>
          /\ fault # "none"
          /\ halt = "aborted"
          /\ registers = hist[1].registers
          /\ memory = hist[1].memory
          /\ eflags = hist[1].eflags

\* SUB dword [EBX],-1 has run on 0x7FFFFFFF with CF and SF set before it:
\* the dword is 0x80000000 and CF, SF and OF are set.
C22Witness ==
    /\ Group83Step({5})
    /\ MemoryForm(hist[1])
    /\ Rm32Of(hist[1]) = MaxI32
    /\ Imm8Of(hist[1]) = MaxU32
    /\ hist[1].eflags = CARRY_FLAG + SIGN_FLAG
    /\ WordAt(memory, AsUsize(registers[Ebx])) = MinI32
    /\ eflags = CARRY_FLAG + SIGN_FLAG + OVERFLOW_FLAG

\* The ModR/M byte the decoder was called on.
ModRMByte == MemAt(call[1].before.memory, AsUsize(call[1].before.eip))

\* 1 + (1 if mod # 3 and rm = 4) + (4 if mod = 0 and rm = 5) + (1 if mod = 1)
\* + (4 if mod = 2), for the ModR/M byte b.
DecodeLength(b) ==
    1 + (IF b \div 64 # 3 /\ b % 8 = 4 THEN 1 ELSE 0)
      + (IF b \div 64 = 0 /\ b % 8 = 5 THEN 4 ELSE 0)
      + (IF b \div 64 = 1 THEN 1 ELSE 0)
      + (IF b \div 64 = 2 THEN 4 ELSE 0)

\* C23, ModR/M decode length and fields: for every ModR/M byte m the decoder
\* yields mod = m >> 6, reg = (m >> 3) & 7, rm = m & 7 and advances EIP by
\* exactly 1 + (1 if mod # 3 and rm = 4) + (4 if mod = 0 and rm = 5) + (1 if
\* mod = 1) + (4 if mod = 2); sib is present iff mod # 3 and rm = 4, disp8
\* iff mod = 1, disp32 iff mod = 2 or (mod = 0 and rm = 5); the decoder
\* changes no register, flag or memory byte.
C23ModRMDecode ==
    Len(call) >= 1 /\ call[1].op = "parse_modrm" =>
        /\ Decoded.mod_val = ModRMByte \div 64
        /\ Decoded.opecode = (ModRMByte \div 8) % 8
        /\ Decoded.rm = ModRMByte % 8
        /\ Decoded.sib # <<>> <=> (Decoded.mod_val # 3 /\ Decoded.rm = 4)
        /\ Decoded.disp8 # <<>> <=> Decoded.mod_val = 1
        /\ Decoded.disp32 # <<>> <=>
              (Decoded.mod_val = 2 \/ (Decoded.mod_val = 0 /\ Decoded.rm = 5))
        /\ Len(call) = 1 =>
              /\ fault = "none"
              /\ eip = wrapping_add(call[1].before.eip, W(DecodeLength(ModRMByte)))
              /\ registers = call[1].before.registers
              /\ eflags = call[1].before.eflags
              /\ memory = call[1].before.memory

\* The byte 0x84 (mod = 2, rm = 4) has been decoded: a SIB byte and a
\* disp32 are present and EIP is 6 further.
C23Witness ==
    /\ Len(call) = 1
    /\ call[1].op = "parse_modrm"
    /\ ModRMByte = \h84
    /\ Decoded.sib = <<\hF0>>
    /\ Decoded.disp8 = <<>>
    /\ Decoded.disp32 = <<MaxU32>>
    /\ eip = W(LOAD_ADDRESS + 6)

\* The emulator the accessor of the last call was called on.
Operand == call[2].before

\* The byte k places after the ModR/M byte.
TailByte(k) ==
    MemAt(call[1].before.memory, AsUsize(call[1].before.eip) + k)

\* The disp32 that follows the ModR/M byte, as an unsigned word.
Disp32 == U32(TailByte(3) + 256 * TailByte(4), TailByte(1) + 256 * TailByte(2))

\* The r/m operand is a memory operand the emulator computes an address
\* for: mod # 3, no SIB byte.
Addressed == ModRMByte \div 64 # 3 /\ ModRMByte % 8 # 4

\* The effective address of the decoded ModR/M byte.
EffectiveAddress ==
    CASE ModRMByte \div 64 = 0 /\ ModRMByte % 8 = 5 -> Disp32
      [] ModRMByte \div 64 = 0 /\ ModRMByte % 8 # 5 -> Operand.registers[ModRMByte % 8]
      [] ModRMByte \div 64 = 1 ->
            wrapping_add(Operand.registers[ModRMByte % 8], Extended(TailByte(1)))
      [] ModRMByte \div 64 = 2 ->
            wrapping_add(Operand.registers[ModRMByte % 8], Disp32)

\* The n bytes at the effective address are bytes of the memory.
InBounds(n) ==
    ~TooBig(EffectiveAddress) /\ AsUsize(EffectiveAddress) <= MEMORY_SIZE - n

\* Nothing but the registers and the memory has changed in the last call.
OperandFrame ==
    /\ fault = "none"
    /\ eip = Operand.eip
    /\ eflags = Operand.eflags

\* The memory is that of the last call with the bytes bs stored from the
\* effective address, and the registers are untouched.
Stored(bs) ==
    /\ registers = Operand.registers
    /\ DOMAIN memory = DOMAIN Operand.memory
                          \cup {AsUsize(EffectiveAddress) + k - 1 : k \in 1 .. Len(bs)}
    /\ \A a \in DOMAIN memory :
          memory[a] =
              IF a - AsUsize(EffectiveAddress) \in 0 .. (Len(bs) - 1)
              THEN bs[a - AsUsize(EffectiveAddress) + 1]
              ELSE Operand.memory[a]

\* The last call was the accessor op.
LastCall(op) == Len(call) = 2 /\ call[1].op = "parse_modrm" /\ call[2].op = op

\* C24, effective address and operand selection: for mod = 0 and rm = 5
\* the address is disp32 reinterpreted as unsigned; for mod = 0 and rm in
\* {0,1,2,3,6,7} it is register rm; for mod = 1 it is (register rm + sign-
\* extended disp8) mod 2^32; for mod = 2 it is (register rm + disp32) mod
\* 2^32; for mod = 3 the r/m operand is register rm and no memory is
\* accessed; the r8/r32 operand is always the register selected by the reg
\* field; an 8-bit memory access touches exactly one byte and a 32-bit one
\* exactly four.
C24OperandSelection ==
    /\ LastCall("set_rm32") /\ Addressed /\ InBounds(4) =>
          OperandFrame /\ Stored(LE32(DecodeWord))
    /\ LastCall("set_rm8") /\ Addressed /\ InBounds(1) =>
          OperandFrame /\ Stored(<<DecodeByte>>)
    /\ LastCall("get_rm32") /\ Addressed /\ InBounds(4) =>
          /\ OperandFrame /\ registers = Operand.registers /\ memory = Operand.memory
          /\ call[2].ret = WordAt(Operand.memory, AsUsize(EffectiveAddress))
    /\ LastCall("get_rm8") /\ Addressed /\ InBounds(1) =>
          /\ OperandFrame /\ registers = Operand.registers /\ memory = Operand.memory
          /\ call[2].ret = MemAt(Operand.memory, AsUsize(EffectiveAddress))
    /\ LastCall("set_rm32") /\ ModRMByte \div 64 = 3 =>
          /\ OperandFrame /\ memory = Operand.memory
          /\ registers = [Operand.registers EXCEPT ![ModRMByte % 8] = DecodeWord]
    /\ LastCall("set_rm8") /\ ModRMByte \div 64 = 3 =>
          /\ OperandFrame /\ memory = Operand.memory
          /\ registers = Write8(Operand.registers, ModRMByte % 8, DecodeByte)
    /\ LastCall("get_rm32") /\ ModRMByte \div 64 = 3 =>
          /\ OperandFrame /\ registers = Operand.registers /\ memory = Operand.memory
          /\ call[2].ret = Operand.registers[ModRMByte % 8]
    /\ LastCall("get_rm8") /\ ModRMByte \div 64 = 3 =>
          /\ OperandFrame /\ registers = Operand.registers /\ memory = Operand.memory
          /\ call[2].ret = ByteOfReg(Operand.registers, ModRMByte % 8)
    /\ LastCall("set_r32") =>
          /\ OperandFrame /\ memory = Operand.memory
          /\ registers = [Operand.registers EXCEPT ![(ModRMByte \div 8) % 8] = DecodeWord]
    /\ LastCall("set_r8") =>
          /\ OperandFrame /\ memory = Operand.memory
          /\ registers = Write8(Operand.registers, (ModRMByte \div 8) % 8, DecodeByte)
    /\ LastCall("get_r32") =>
          /\ OperandFrame /\ registers = Operand.registers /\ memory = Operand.memory
          /\ call[2].ret = Operand.registers[(ModRMByte \div 8) % 8]
    /\ LastCall("get_r8") =>
          /\ OperandFrame /\ registers = Operand.registers /\ memory = Operand.memory
          /\ call[2].ret = ByteOfReg(Operand.registers, (ModRMByte \div 8) % 8)

\* A dword has been stored through [EDI + disp8] with EDI = 0xFFFFFFF7 and
\* disp8 = +16: the address has wrapped to 7.
C24Witness ==
    /\ LastCall("set_rm32")
    /\ ModRMByte = \h47
    /\ Operand.registers[7] = U32(Half - 1, Half - 9)
    /\ EffectiveAddress = W(7)
    /\ fault = "none"
    /\ MemAt(memory, 7) = \hBE
    /\ MemAt(memory, 10) = \hCA
    /\ MemAt(memory, 6) = Mark(6)

\* The instruction at the EIP of s is a 32-bit push: PUSH r32, PUSH imm32,
\* PUSH imm8 or CALL rel32.
IsPush(s) == OpcodeOf(s) \in (\h50 .. \h57) \cup {\h68, \h6A, \hE8}

\* The value the push at the EIP of s pushes.
Pushed(s) ==
    CASE OpcodeOf(s) \in \h50 .. \h57 -> s.registers[OpcodeOf(s) - \h50]
      [] OpcodeOf(s) = \h68 -> WordAt(s.memory, AsUsize(s.eip) + 1)
      [] OpcodeOf(s) = \h6A -> U32(0, MemAt(s.memory, AsUsize(s.eip) + 1))
      [] OpcodeOf(s) = \hE8 -> wrapping_add(s.eip, W(5))

\* The instruction at the EIP of s is a pop that leaves ESP to the stack:
\* POP r32 for a register other than ESP, or RET.
IsPop(s) == OpcodeOf(s) \in ((\h58 .. \h5F) \ {\h5C}) \cup {\hC3}

\* The emulator after the instruction of hist[i].
After(i) == IF i = 1 THEN Self ELSE hist[i - 1]

\* The value the pop of hist[i] has popped: the register of POP r32, the
\* EIP of RET.
Popped(i) ==
    IF OpcodeOf(hist[i]) = \hC3 THEN After(i).eip
    ELSE After(i).registers[OpcodeOf(hist[i]) - \h58]

\* A push lowers ESP by 4 and stores the value at the new ESP; no other
\* memory byte, none at or above the old ESP in particular, and no other
\* register changes.
PushDiscipline ==
    Len(hist) >= 1 /\ IsPush(hist[1]) /\ StackRoom(hist[1].registers[Esp]) =>
        LET s == hist[1]
            old == AsUsize(s.registers[Esp])
        IN  /\ OpcodeOf(s) # \hE8 => fault = "none"
            /\ registers = [s.registers EXCEPT ![Esp] = W(old - 4)]
            /\ WordAt(memory, old - 4) = Pushed(s)
            /\ \A a \in DOMAIN memory \cup DOMAIN s.memory :
                  a \notin (old - 4) .. (old - 1) => MemAt(memory, a) = MemAt(s.memory, a)

\* The last 2k instructions were k pushes and then k pops, the stack in
\* bounds: the pops have popped the pushed values in reverse order and ESP
\* is as before the first push.
Lifo(k) ==
    /\ Len(hist) >= 2 * k
    /\ \A i \in 1 .. k : IsPop(hist[i])
    /\ \A i \in (k + 1) .. (2 * k) : IsPush(hist[i])
    /\ ~TooBig(hist[2 * k].registers[Esp])
    /\ AsUsize(hist[2 * k].registers[Esp]) \in (4 * k) .. MEMORY_SIZE
    => /\ fault = "none"
       /\ \A i \in 1 .. k : Popped(i) = Pushed(hist[(2 * k) + 1 - i])
       /\ registers[Esp] = hist[2 * k].registers[Esp]

\* POP ESP leaves ESP equal to the popped value.
PopEsp ==
    Len(hist) >= 1 /\ OpcodeOf(hist[1]) = \h5C
        /\ ~TooBig(hist[1].registers[Esp])
        /\ AsUsize(hist[1].registers[Esp]) <= MEMORY_SIZE - 4 =>
            /\ fault = "none"
            /\ registers[Esp] = WordAt(hist[1].memory, AsUsize(hist[1].registers[Esp]))

\* C25, stack discipline over sequences: every 32-bit push (PUSH r32, PUSH
\* imm32, PUSH imm8 zero-extended, CALL) first lowers ESP by 4 and then
\* stores the value at the new ESP, never modifying a memory byte at or
\* above the ESP held before the push; for any sequence of k pushes followed
\* by k pops (POP r32 / RET) with the stack staying in bounds, the popped
\* values are the pushed values in reverse order and ESP returns to its
\* starting value.  PUSH ESP stores the ESP held before the decrement and
\* POP ESP leaves ESP equal to the popped value.
C25StackDiscipline ==
    /\ PushDiscipline
    /\ \A k \in 1 .. (HistLen \div 2) : Lifo(k)
    /\ PopEsp

\* PUSH 0; PUSH 0x80; PUSH EAX; PUSH ESP; POP ECX; POP EDX; POP EBX; RET has
\* run from ESP = 0x7C00: ECX is the ESP before the fourth push, EDX is EAX,
\* EBX is 0x80, EIP is 0 and ESP is 0x7C00 again.
C25Witness ==
    /\ Len(hist) >= 8
    /\ \A i \in 1 .. 4 : IsPop(hist[i])
    /\ \A i \in 5 .. 8 : IsPush(hist[i])
    /\ OpcodeOf(hist[5]) = \h54
    /\ OpcodeOf(hist[1]) = \hC3
    /\ hist[8].registers[Esp] = W(LOAD_ADDRESS)
    /\ registers[Ecx] = W(LOAD_ADDRESS - 12)
    /\ registers[Edx] = U32(\h1122, \h3344)
    /\ registers[Ebx] = W(\h80)
    /\ eip = W(0)
    /\ registers[Esp] = W(LOAD_ADDRESS)

\* The AL and the imm8 of the CMP AL,imm8 at the EIP of s.
AlOf(s) == ByteOfReg(s.registers, Al)

CmpImm8Of(s) == MemAt(s.memory, AsUsize(s.eip) + 1)

\* The flags and the frame of CMP AL,imm8.
CmpAlFlags ==
    Len(hist) >= 1 /\ OpcodeOf(hist[1]) = \h3C =>
        /\ fault = "none"
        /\ Flag(ZERO_FLAG) = 1 <=> AlOf(hist[1]) = CmpImm8Of(hist[1])
        /\ Flag(CARRY_FLAG) = 1 <=> AlOf(hist[1]) < CmpImm8Of(hist[1])
        /\ Flag(OVERFLOW_FLAG) = 0
        /\ Flag(SIGN_FLAG) = Flag(CARRY_FLAG)
        /\ eip = wrapping_add(hist[1].eip, W(2))
        /\ registers = hist[1].registers
        /\ memory = hist[1].memory

\* A JL, JS, JC or JO with a forward displacement right after CMP AL,imm8:
\* JL, JS and JC are taken exactly when AL < imm8 as unsigned bytes, JO never.
CmpAlJumps ==
    Len(hist) >= 2 /\ OpcodeOf(hist[2]) = \h3C
        /\ OpcodeOf(hist[1]) \in {\h70, \h72, \h78, \h7C}
        /\ MemAt(hist[1].memory, AsUsize(hist[1].eip) + 1) \in 1 .. \h7F =>
            /\ fault = "none"
            /\ eip = IF OpcodeOf(hist[1]) # \h70 /\ AlOf(hist[2]) < CmpImm8Of(hist[2])
                     THEN wrapping_add(hist[1].eip,
                                       W(2 + MemAt(hist[1].memory, AsUsize(hist[1].eip) + 1)))
                     ELSE wrapping_add(hist[1].eip, W(2))

\* C26, CMP AL,imm8 (0x3C) compares zero-extended bytes: for every AL and
\* imm8, afterwards ZF = 1 iff AL = imm8, CF = 1 iff AL < imm8 as unsigned
\* bytes, OF = 0 always, and SF = CF (SF is bit 31 of the 32-bit difference,
\* not bit 7 of the 8-bit one); hence a following JL is taken exactly when
\* AL < imm8 as unsigned bytes, JS behaves as JC and JO is never taken.  EIP
\* advances by 2 and EAX is unchanged.
C26CmpAlImm8 == CmpAlFlags /\ CmpAlJumps

\* CMP AL,0xFF with AL = 0x80 and OF set beforehand, then JL +3: CF and SF
\* are set, OF is clear, and the jump has been taken.
C26Witness ==
    /\ Len(hist) >= 2
    /\ OpcodeOf(hist[2]) = \h3C
    /\ AlOf(hist[2]) = \h80
    /\ CmpImm8Of(hist[2]) = \hFF
    /\ hist[2].eflags = OVERFLOW_FLAG
    /\ OpcodeOf(hist[1]) = \h7C
    /\ eflags = CARRY_FLAG + SIGN_FLAG
    /\ eip = wrapping_add(hist[1].eip, W(5))

=============================================================================
